---- MODULE Spec2Model ----
(***************************************************************************)
(* Aamati mood pipeline: ModelRunner (Source/ModelRunner.cpp), the         *)
(* FeatureExtractor (Source/FeatureExtractor.cpp), the audio callback      *)
(* (Source/PluginProcessor.cpp), the pattern generator (AIMidiGenerator,   *)
(* Source/ModernUI.h), the EmotionalOptimizer and the GrooveShaper         *)
(* (EmotionalOptimizer.cpp, GrooveShaper.cpp) and the editor's timer       *)
(* (Source/PluginEditor.cpp).                                              *)
(*                                                                         *)
(* Floats are fixed-point integers counting hundredths (Fx), wrapped in a  *)
(* record that also represents NaN and the infinities.                     *)
(***************************************************************************)
EXTENDS Integers, Sequences, FiniteSets, TLC

VARIABLES
    modelLoaded,      \* ModelRunner::modelLoaded
    session,          \* ModelRunner::session: the model file the session was built from
    ret,              \* the ModelRunner call that has just returned: its arguments and result
    audioHistory,     \* FeatureExtractor::audioHistory
    velocityHistory,  \* FeatureExtractor::velocityHistory
    pitchHistory,     \* FeatureExtractor::pitchHistory
    lastAnalysisTime, \* FeatureExtractor::lastAnalysisTime
    capacity,         \* capacity() of the three history vectors
    arrived,          \* every sample appended since construction or reset, in order
    feRet,            \* the FeatureExtractor call that has just returned
    midiRet,          \* the extractFeaturesFromMidi call that has just returned
    hasRunner,        \* AamatiAudioProcessor::modelRunner != nullptr
    hasExtractor,     \* AamatiAudioProcessor::featureExtractor != nullptr
    hostRate,         \* AudioProcessor::getSampleRate()
    blockRet,         \* the processBlock call that has just returned
    lastBlock,        \* the processBlock call before it, since the last prepareToPlay
    genRet,           \* the AIMidiGenerator call that has just returned
    lastGen,          \* what the AIMidiGenerator call before it returned, in short
    currentProfile,   \* EmotionalOptimizer::currentProfile
    targetProfile,    \* EmotionalOptimizer::targetProfile
    eoRet,            \* the EmotionalOptimizer call that has just returned
    currentGrooveProfile, \* GrooveShaper::currentProfile
    gsRet,            \* the GrooveShaper call that has just returned
    timerPc,          \* where the message thread is in timerCallback
    audioPc,          \* where the host's audio thread is in prepareToPlay / processBlock
    modelStatusLabel  \* AamatiAudioProcessorEditor::modelStatusLabel's text

mrVars == <<modelLoaded, session, ret>>
feVars == <<audioHistory, velocityHistory, pitchHistory, lastAnalysisTime, capacity,
            arrived, feRet>>
midiVars == <<midiRet>>
plVars == <<hasRunner, hasExtractor, hostRate, blockRet, lastBlock>>
genVars == <<genRet, lastGen>>
eoVars == <<currentProfile, targetProfile, eoRet>>
gsVars == <<currentGrooveProfile, gsRet>>
thVars == <<timerPc, audioPc, modelStatusLabel>>
vars == <<modelLoaded, session, ret, audioHistory, velocityHistory, pitchHistory,
          lastAnalysisTime, capacity, arrived, feRet, midiRet,
          hasRunner, hasExtractor, hostRate, blockRet, lastBlock, genRet, lastGen,
          currentProfile, targetProfile, eoRet, currentGrooveProfile, gsRet,
          timerPc, audioPc, modelStatusLabel>>

----------------------------------------------------------------------------
(* Fixed-point floats *)

Fx(whole, hundredths) == whole * 100 + hundredths

Fin(n) == [k |-> "fin", v |-> n]
NaN == [k |-> "nan", v |-> 0]
PosInf == [k |-> "inf", v |-> 1]
NegInf == [k |-> "inf", v |-> -1]

isfinite(x) == x.k = "fin"

\* IEEE comparison a < b: false when either side is NaN
FLt(a, b) ==
    IF a.k = "nan" \/ b.k = "nan" THEN FALSE
    ELSE IF a.k = "inf" THEN a.v < 0 /\ ~(b.k = "inf" /\ b.v < 0)
    ELSE IF b.k = "inf" THEN b.v > 0
    ELSE a.v < b.v

FGt(a, b) == FLt(b, a)

----------------------------------------------------------------------------
(* Model files on disk, as loadModel sees them *)

Paths ==
    {"missing", "tiny", "corrupt", "twoInputs", "twoOutputs",
     "badInput", "badOutput", "good", "good2"}

\* a shape's batch dimension is dynamic (-1)
GoodFile ==
    [exists |-> TRUE, fileSize |-> 1024, parses |-> TRUE,
     inputCount |-> 1, outputCount |-> 1,
     inputShape |-> <<-1, 5>>, outputShape |-> <<-1, 10>>]

ModelFile(modelPath) ==
    CASE modelPath = "missing"    -> [GoodFile EXCEPT !.exists = FALSE]
      [] modelPath = "tiny"       -> [GoodFile EXCEPT !.fileSize = 1023]
      [] modelPath = "corrupt"    -> [GoodFile EXCEPT !.parses = FALSE]
      [] modelPath = "twoInputs"  -> [GoodFile EXCEPT !.inputCount = 2]
      [] modelPath = "twoOutputs" -> [GoodFile EXCEPT !.outputCount = 2]
      [] modelPath = "badInput"   -> [GoodFile EXCEPT !.inputShape = <<-1, 4>>]
      [] modelPath = "badOutput"  -> [GoodFile EXCEPT !.outputShape = <<10>>]
      [] modelPath = "good"       -> GoodFile
      [] modelPath = "good2"      -> [GoodFile EXCEPT !.fileSize = 4096]

NoSession == "none"

----------------------------------------------------------------------------
(* ModelRunner *)

\* mutant: the last label is missing from the list
getMoodLabels_NineLabels ==
    <<"chill", "energetic", "suspenseful", "uplifting", "ominous",
      "romantic", "gritty", "dreamy", "frantic">>

getMoodLabels ==
    <<"chill", "energetic", "suspenseful", "uplifting", "ominous",
      "romantic", "gritty", "dreamy", "frantic", "focused">>

MoodLabelSet == {getMoodLabels[i] : i \in 1..Len(getMoodLabels)}

validateModelFile(modelPath) ==
    IF ~ModelFile(modelPath).exists THEN FALSE
    ELSE IF ModelFile(modelPath).fileSize < 1024 THEN FALSE
    ELSE TRUE

\* evaluated on the freshly assigned session
validateModelStructure(s) ==
    IF ModelFile(s).inputCount # 1 THEN FALSE
    ELSE IF ModelFile(s).outputCount # 1 THEN FALSE
    ELSE IF Len(ModelFile(s).inputShape) # 2 \/ ModelFile(s).inputShape[2] # 5 THEN FALSE
    ELSE IF Len(ModelFile(s).outputShape) # 2 \/ ModelFile(s).outputShape[2] # 10 THEN FALSE
    ELSE TRUE

NoFeatures == <<>>
NoRun == [threw |-> FALSE, outData |-> <<>>]

Ret(op, path, features, run, ran, result, probabilities) ==
    [op |-> op, path |-> path, features |-> features, run |-> run, ran |-> ran,
     result |-> result, probabilities |-> probabilities]

\* no call is returning: the caller is between two calls
NoCall == Ret("none", "", NoFeatures, NoRun, FALSE, "", <<>>)

LoadRet(modelPath, ok) ==
    Ret("loadModel", modelPath, NoFeatures, NoRun, FALSE,
        IF ok THEN "true" ELSE "false", <<>>)

\* the state loadModel leaves, given the state it starts in
loadModelFrom(loaded, sess, modelPath) ==
    IF ~validateModelFile(modelPath)
    THEN [modelLoaded |-> loaded, session |-> sess, ok |-> FALSE]
    ELSE IF ~ModelFile(modelPath).parses
    THEN \* Ort::Session's constructor throws: the catch block runs
         [modelLoaded |-> FALSE, session |-> sess, ok |-> FALSE]
    ELSE IF ~validateModelStructure(modelPath)
    THEN [modelLoaded |-> loaded, session |-> modelPath, ok |-> FALSE]
    ELSE [modelLoaded |-> TRUE, session |-> modelPath, ok |-> TRUE]

loadModel(modelPath) ==
    LET after == loadModelFrom(modelLoaded, session, modelPath) IN
    /\ modelLoaded' = after.modelLoaded
    /\ session' = after.session
    /\ ret' = LoadRet(modelPath, after.ok)

unloadModel ==
    /\ modelLoaded' = (IF modelLoaded THEN FALSE ELSE modelLoaded)
    /\ ret' = Ret("unloadModel", "", NoFeatures, NoRun, FALSE, "", <<>>)
    /\ UNCHANGED session

\* mutant: the upper bound of the density check is missing
validateInputFeatures_NoDensityMax(features) ==
    IF \E i \in 1..Len(features) : ~isfinite(features[i]) THEN FALSE
    ELSE IF FLt(features[1], Fin(Fx(60, 0))) \/ FGt(features[1], Fin(Fx(200, 0))) THEN FALSE
    ELSE IF FLt(features[2], Fin(Fx(0, 0))) \/ FGt(features[2], Fin(Fx(1, 0))) THEN FALSE
    ELSE IF FLt(features[3], Fin(Fx(0, 0))) THEN FALSE
    ELSE IF FLt(features[4], Fin(Fx(0, 0))) \/ FGt(features[4], Fin(Fx(127, 0))) THEN FALSE
    ELSE IF FLt(features[5], Fin(Fx(0, 0))) \/ FGt(features[5], Fin(Fx(1, 0))) THEN FALSE
    ELSE TRUE

validateInputFeatures(features) ==
    IF \E i \in 1..Len(features) : ~isfinite(features[i]) THEN FALSE
    ELSE IF FLt(features[1], Fin(Fx(60, 0))) \/ FGt(features[1], Fin(Fx(200, 0))) THEN FALSE
    ELSE IF FLt(features[2], Fin(Fx(0, 0))) \/ FGt(features[2], Fin(Fx(1, 0))) THEN FALSE
    ELSE IF FLt(features[3], Fin(Fx(0, 0))) \/ FGt(features[3], Fin(Fx(10, 0))) THEN FALSE
    ELSE IF FLt(features[4], Fin(Fx(0, 0))) \/ FGt(features[4], Fin(Fx(127, 0))) THEN FALSE
    ELSE IF FLt(features[5], Fin(Fx(0, 0))) \/ FGt(features[5], Fin(Fx(1, 0))) THEN FALSE
    ELSE TRUE

\* mutant: the arg-max loop compares with >=, so the last of several maxima wins
RECURSIVE FindBest_LastTie(_, _, _, _)
FindBest_LastTie(outData, size, i, best) ==
    IF i > size THEN best
    ELSE FindBest_LastTie(outData, size, i + 1,
                          IF outData[i] >= outData[best] THEN i ELSE best)

\* the arg-max loop of predict: i runs over 2..size, best is bestIdx (1-based)
RECURSIVE FindBest(_, _, _, _)
FindBest(outData, size, i, best) ==
    IF i > size THEN best
    ELSE FindBest(outData, size, i + 1, IF outData[i] > outData[best] THEN i ELSE best)

bestIdxOf(outData) == FindBest(outData, Len(getMoodLabels), 2, 1)

\* mutant: a score below the floor is reported as its mood all the same
classify_NoFloor(outData) == getMoodLabels[bestIdxOf(outData)]

\* lines 209-245 of predict: labels, arg-max, confidence floor
classify(outData) ==
    LET moodLabels == getMoodLabels
        bestIdx == bestIdxOf(outData)
        bestScore == outData[bestIdx]
    IN  IF Len(moodLabels) # 10 THEN "output_size_mismatch"
        ELSE IF bestScore < Fx(0, 10) THEN "low_confidence"
        ELSE IF bestIdx >= 1 /\ bestIdx <= Len(moodLabels) THEN moodLabels[bestIdx]
        ELSE "unknown"

\* run is what session.Run does if predict gets to call it
predictOutcome(features, run) ==
    IF ~modelLoaded THEN [ran |-> FALSE, result |-> "model_not_loaded"]
    ELSE IF ~validateInputFeatures(features) THEN [ran |-> FALSE, result |-> "invalid_input"]
    ELSE IF run.threw THEN [ran |-> TRUE, result |-> "prediction_error"]
    ELSE IF Len(run.outData) = 0 THEN [ran |-> TRUE, result |-> "no_output"]
    ELSE [ran |-> TRUE, result |-> classify(run.outData)]

predict(features, run) ==
    LET o == predictOutcome(features, run) IN
    /\ ret' = Ret("predict", "", features, IF o.ran THEN run ELSE NoRun, o.ran, o.result, <<>>)
    /\ UNCHANGED <<modelLoaded, session>>

predictProbabilitiesOutcome(features, run) ==
    IF ~modelLoaded THEN [ran |-> FALSE, probabilities |-> <<>>]
    ELSE IF run.threw THEN [ran |-> TRUE, probabilities |-> <<>>]
    ELSE [ran |-> TRUE, probabilities |-> SubSeq(run.outData, 1, Len(getMoodLabels))]

predictProbabilities(features, run) ==
    LET o == predictProbabilitiesOutcome(features, run) IN
    /\ ret' = Ret("predictProbabilities", "", features, IF o.ran THEN run ELSE NoRun,
                  o.ran, "", o.probabilities)
    /\ UNCHANGED <<modelLoaded, session>>

----------------------------------------------------------------------------
(* Inputs *)

\* per-feature validity range of validateInputFeatures, in hundredths
RangeLo == <<Fx(60, 0), Fx(0, 0), Fx(0, 0), Fx(0, 0), Fx(0, 0)>>
RangeHi == <<Fx(200, 0), Fx(1, 0), Fx(10, 0), Fx(127, 0), Fx(1, 0)>>

Nominal == <<Fin(Fx(120, 0)), Fin(Fx(0, 50)), Fin(Fx(5, 0)), Fin(Fx(64, 0)), Fin(Fx(0, 50))>>

\* the example of the documentation: tempo 140, swing 0.05, density 25, range 80, energy 0.85
ExampleFeatures ==
    <<Fin(Fx(140, 0)), Fin(Fx(0, 5)), Fin(Fx(25, 0)), Fin(Fx(80, 0)), Fin(Fx(0, 85))>>

ProbeValues(i) ==
    {NaN, PosInf, NegInf,
     Fin(RangeLo[i] - 1), Fin(RangeLo[i]), Fin(RangeHi[i]), Fin(RangeHi[i] + 1)}

FeatureVecs ==
    UNION {{[Nominal EXCEPT ![i] = x] : x \in ProbeValues(i)} : i \in 1..5}
    \cup {Nominal, ExampleFeatures,
          [i \in 1..5 |-> Fin(RangeLo[i])], [i \in 1..5 |-> Fin(RangeHi[i])]}

\* scores: 0.09, 0.10 (the floor), 0.90
ScoreValues == {Fx(0, 9), Fx(0, 10), Fx(0, 90)}
BaseValues == {Fx(0, 9), Fx(0, 90)}

ScoreVecs ==
    {[i \in 1..10 |-> IF i = a THEN x ELSE IF i = b THEN y ELSE base] :
        a \in 1..10, b \in 1..10, x \in ScoreValues, y \in ScoreValues, base \in BaseValues}

\* session.Run either throws or fills one output tensor
RunOutcomes ==
    {[threw |-> TRUE, outData |-> <<>>]} \cup {[threw |-> FALSE, outData |-> s] : s \in ScoreVecs}

----------------------------------------------------------------------------
(* FeatureExtractor, streaming path *)

\* FeatureExtractor::MAX_HISTORY_SIZE is 44100 * 10; the model uses a small cap
MAX_HISTORY_SIZE == 4
MaxChannels == 2
MaxSamples == 2
MaxSampleRate == 4
MaxArrived == 7

SampleValues == {Fx(-1, 0), Fx(0, 50)}
SampleRates == 1..MaxSampleRate

\* a juce::AudioBuffer<float>: one sample sequence per channel, all of one length
Buffers ==
    UNION {[1..c -> [1..n -> SampleValues]] : c \in 1..MaxChannels, n \in 0..MaxSamples}

getNumChannels(buffer) == Len(buffer)
getNumSamples(buffer) == Len(buffer[1])

fabs(x) == IF x < 0 THEN 0 - x ELSE x
velocityOf(sampleValue) == fabs(sampleValue)
pitchOf(sampleValue) == (sampleValue + Fx(1, 0)) * 64

velocitiesOf(samples) == [i \in 1..Len(samples) |-> velocityOf(samples[i])]
pitchesOf(samples) == [i \in 1..Len(samples) |-> pitchOf(samples[i])]

\* the samples in the order the two nested loops visit them: channel by channel
RECURSIVE Visit(_, _)
Visit(buffer, channel) ==
    IF channel > getNumChannels(buffer) THEN <<>>
    ELSE buffer[channel] \o Visit(buffer, channel + 1)

\* mutant: the newest entries are erased instead of the oldest
eraseBack(history, excess) == SubSeq(history, 1, Len(history) - excess)

\* vector::erase(begin(), begin() + excess)
eraseFront(history, excess) == SubSeq(history, excess + 1, Len(history))

\* lines 53-59 clearing a history that has grown past the limit
trim_Clear(history) == IF Len(history) > MAX_HISTORY_SIZE THEN <<>> ELSE history

\* lines 53-59: keep history size manageable
trim(history) ==
    IF Len(history) > MAX_HISTORY_SIZE
    THEN eraseFront(history, Len(history) - MAX_HISTORY_SIZE)
    ELSE history

\* mutant: the window must be exceeded, not only filled
enoughData_Strict(size, sampleRate) == size > sampleRate

\* line 62: the analysis runs unless size < static_cast<size_t>(sampleRate)
enoughData(size, sampleRate) == ~(size < sampleRate)

\* push_back past capacity() reallocates; the growth factor is the library's choice
Grown(cap, size) == IF size > cap THEN {size, 2 * cap} \cap {c \in Int : c >= size} ELSE {cap}

NoFeCall == [op |-> "none", sampleRate |-> 0, hasValue |-> FALSE, peakSize |-> 0]

extractFeaturesFromAudio(buffer, sampleRate) ==
    LET incoming == Visit(buffer, 1)
        appendedAudio == audioHistory \o incoming
        appendedVelocity == velocityHistory \o velocitiesOf(incoming)
        appendedPitch == pitchHistory \o pitchesOf(incoming)
    IN  /\ audioHistory' = trim(appendedAudio)
        /\ velocityHistory' =
              (IF Len(appendedAudio) > MAX_HISTORY_SIZE
               THEN eraseFront(appendedVelocity, Len(appendedAudio) - MAX_HISTORY_SIZE)
               ELSE appendedVelocity)
        /\ pitchHistory' =
              (IF Len(appendedAudio) > MAX_HISTORY_SIZE
               THEN eraseFront(appendedPitch, Len(appendedAudio) - MAX_HISTORY_SIZE)
               ELSE appendedPitch)
        /\ capacity' \in Grown(capacity, Len(appendedAudio))
        /\ arrived' = arrived \o incoming
        /\ feRet' = [op |-> "extractFeaturesFromAudio", sampleRate |-> sampleRate,
                     hasValue |-> enoughData(Len(audioHistory'), sampleRate),
                     peakSize |-> Len(appendedAudio)]
        /\ UNCHANGED lastAnalysisTime

reset ==
    /\ audioHistory' = <<>>
    /\ velocityHistory' = <<>>
    /\ pitchHistory' = <<>>
    /\ lastAnalysisTime' = 0
    /\ arrived' = <<>>
    /\ feRet' = [NoFeCall EXCEPT !.op = "reset"]
    /\ UNCHANGED capacity

----------------------------------------------------------------------------
(* FeatureExtractor::extractFeaturesFromMidi, FeatureExtractor.cpp 85-136 *)

MaxEvents == 3

\* float division: a zero divisor gives an infinity or NaN, it does not trap
FDiv(a, b) ==
    IF b # 0 THEN Fin((a * 100) \div b)
    ELSE IF a > 0 THEN PosInf
    ELSE IF a < 0 THEN NegInf
    ELSE NaN

\* x * num / den for a positive factor
FScale(x, num, den) == IF x.k = "fin" THEN Fin((x.v * num) \div den) ELSE x

FAdd(a, b) ==
    IF a.k = "nan" \/ b.k = "nan" THEN NaN
    ELSE IF a.k = "inf" /\ b.k = "inf" THEN (IF a.v = b.v THEN a ELSE NaN)
    ELSE IF a.k = "inf" THEN a
    ELSE IF b.k = "inf" THEN b
    ELSE Fin(a.v + b.v)

\* a MidiEvent after doTimeAnalysis: its kind, its time in seconds, its velocity
EventKinds == {"drumNoteOn", "pitchedNoteOn", "drumNoteOff"}
isNoteOn(mev) == mev.kind \in {"drumNoteOn", "pitchedNoteOn"}
isDrumNote(mev) == mev.kind \in {"drumNoteOn", "drumNoteOff"}
MidiEvents == [kind : EventKinds, seconds : {0, Fx(0, 30)}, velocity : {64, 100}]

EventLists == UNION {[1..n -> MidiEvents] : n \in 0..MaxEvents}

\* what midi.read finds at midiPath: whether it parses, the events of its tracks in
\* track order, ticks per quarter note, and the seconds that many ticks last
Timings ==
    {[tpq |-> 0, quarterSeconds |-> 0], [tpq |-> 480, quarterSeconds |-> 0],
     [tpq |-> 480, quarterSeconds |-> Fx(0, 50)]}
MidiFiles == [read : BOOLEAN, events : EventLists, timing : Timings]

\* lines 96-108: the events the loop counts, in order
RECURSIVE Counted(_)
Counted(events) ==
    IF events = <<>> THEN <<>>
    ELSE IF ~isNoteOn(Head(events)) THEN Counted(Tail(events))
    ELSE IF ~isDrumNote(Head(events)) THEN Counted(Tail(events))
    ELSE <<Head(events)>> \o Counted(Tail(events))

\* float endTime = 0; if (time > endTime) endTime = time
RECURSIVE EndTime(_)
EndTime(notes) ==
    IF notes = <<>> THEN 0
    ELSE LET rest == EndTime(Tail(notes)) IN
         IF Head(notes).seconds > rest THEN Head(notes).seconds ELSE rest

RECURSIVE SumOf(_)
SumOf(numbers) == IF numbers = <<>> THEN 0 ELSE Head(numbers) + SumOf(Tail(numbers))

\* round(time * 4.0f) / 4.0f: the nearest multiple of 0.25, halves away from zero
quant(time) == ((time * 4 + 50) \div 100) * 25

swingOf(notes) == [i \in 1..Len(notes) |-> fabs(notes[i].seconds - quant(notes[i].seconds))]
velocityValues(notes) == {notes[i].velocity : i \in 1..Len(notes)}
max_element(values) == CHOOSE m \in values : \A v \in values : v <= m
min_element(values) == CHOOSE m \in values : \A v \in values : m <= v

Fallback == <<Fin(Fx(120, 0)), Fin(0), Fin(0), Fin(0), Fin(0)>>

\* mutant: one counted onset is taken as enough
tooLittle_OneOnset(size, endTime) == size < 1 \/ endTime <= 0

\* line 110: noteTimes.size() < 2 || endTime <= 0.0f
tooLittle(size, endTime) == size < 2 \/ endTime <= 0

NoMidiCall == [op |-> "none"]

\* the features returned, and the divisions carried out on the way: each names what it
\* divided by and the divisor's value
extractFeaturesFromMidiOutcome(midi) ==
    IF ~midi.read THEN [features |-> Fallback, divisions |-> {}]
    ELSE
    LET notes == Counted(midi.events)
        size == Len(notes)
        endTime == EndTime(notes)
    IN  IF tooLittle(size, endTime) THEN [features |-> Fallback, divisions |-> {}]
        ELSE
        LET density == FDiv(Fx(size, 0), endTime)
            swing == FDiv(SumOf(swingOf(notes)), Fx(size, 0))
            dynamicRange == max_element(velocityValues(notes)) - min_element(velocityValues(notes))
            meanVel == FDiv(Fx(SumOf([i \in 1..size |-> notes[i].velocity]), 0), Fx(size, 0))
            energy == FAdd(FScale(density, 1, 2), FScale(meanVel, 1, 254))
            tempo == IF midi.timing.tpq > 0
                     THEN FDiv(Fx(60, 0), midi.timing.quarterSeconds)
                     ELSE Fin(Fx(120, 0))
        IN  [features |-> <<tempo, swing, density, Fin(Fx(dynamicRange, 0)), energy>>,
             divisions |->
                 {[by |-> "endTime", divisor |-> endTime],
                  [by |-> "size", divisor |-> size]}
                 \cup (IF midi.timing.tpq > 0
                       THEN {[by |-> "quarterSeconds", divisor |-> midi.timing.quarterSeconds]}
                       ELSE {})]

extractFeaturesFromMidi(midi) ==
    LET outcome == extractFeaturesFromMidiOutcome(midi) IN
    midiRet' = [op |-> "extractFeaturesFromMidi", midi |-> midi,
                features |-> outcome.features, divisions |-> outcome.divisions]

----------------------------------------------------------------------------
(* AamatiAudioProcessor: prepareToPlay and processBlock, PluginProcessor.cpp *)

\* the mlSensitivity parameter, 0.1 .. 2.0
Sensitivities == {Fx(1, 0), Fx(2, 0)}

\* the bus layout is stereo in, stereo out; what the samples are plays no part here
PipelineBuffers ==
    {buffer \in Buffers :
        /\ getNumChannels(buffer) = 2
        /\ \A c \in 1..2, i \in 1..getNumSamples(buffer) : buffer[c][i] = Fx(0, 50)}

\* what the analysis functions make of the window, and what session.Run answers
PipelineFeatures == {Nominal, [Nominal EXCEPT ![1] = NaN]}
PipelineRuns ==
    {[threw |-> TRUE, outData |-> <<>>]}
    \cup {[threw |-> FALSE, outData |-> [i \in 1..10 |-> IF i = a THEN x ELSE Fx(0, 9)]] :
             a \in {1, 2, 4, 5}, x \in {Fx(0, 9), Fx(0, 90)}}

NoBlock == [op |-> "none"]

\* mutant: a string that names no handled mood is processed like an energetic one
applyMoodProcessing_ElseBright(mood, sensitivity) ==
    IF mood = "chill" \/ mood = "dreamy"
    THEN [branch |-> "gentle", factor |-> Fx(1, 0) - (sensitivity * 5) \div 100]
    ELSE IF mood = "ominous" \/ mood = "suspenseful"
    THEN [branch |-> "dark", factor |-> Fx(1, 0) + (sensitivity * 5) \div 100]
    ELSE [branch |-> "bright", factor |-> Fx(1, 0) + (sensitivity * 10) \div 100]

\* lines 229-274: the branch taken for the string and the factor every sample is
\* multiplied by (the bright branch also limits the product to [-1, 1])
applyMoodProcessing(mood, sensitivity) ==
    IF mood = "energetic" \/ mood = "frantic"
    THEN [branch |-> "bright", factor |-> Fx(1, 0) + (sensitivity * 10) \div 100]
    ELSE IF mood = "chill" \/ mood = "dreamy"
    THEN [branch |-> "gentle", factor |-> Fx(1, 0) - (sensitivity * 5) \div 100]
    ELSE IF mood = "ominous" \/ mood = "suspenseful"
    THEN [branch |-> "dark", factor |-> Fx(1, 0) + (sensitivity * 5) \div 100]
    ELSE [branch |-> "none", factor |-> Fx(1, 0)]

NoProcessing == [branch |-> "none", factor |-> Fx(1, 0)]

\* lines 67-99. The runner is replaced only when the model file exists; the extractor
\* is replaced always.
prepareToPlay(sampleRate, modelPath) ==
    /\ hostRate' = sampleRate
    /\ IF ModelFile(modelPath).exists
       THEN LET after == loadModelFrom(FALSE, NoSession, modelPath) IN
            /\ hasRunner' = TRUE
            /\ modelLoaded' = after.modelLoaded
            /\ session' = after.session
       ELSE UNCHANGED <<hasRunner, modelLoaded, session>>
    /\ hasExtractor' = TRUE
    /\ audioHistory' = <<>>
    /\ velocityHistory' = <<>>
    /\ pitchHistory' = <<>>
    /\ lastAnalysisTime' = 0
    /\ capacity' = MAX_HISTORY_SIZE
    /\ arrived' = <<>>
    /\ lastBlock' = NoBlock
    /\ UNCHANGED <<ret, feRet, blockRet>>

\* lines 123-175 with applyMLProcessing (208-227). stages lists what ran, in order.
processBlock(buffer, mlEnabled, sensitivity, features, run) ==
    LET ml == mlEnabled /\ hasRunner /\ hasExtractor IN
    /\ IF ml THEN extractFeaturesFromAudio(buffer, hostRate) ELSE UNCHANGED feVars
    /\ LET has_value == ml /\ feRet'.hasValue IN
       /\ IF has_value THEN predict(features, run) ELSE UNCHANGED mrVars
       /\ LET predictedMood == IF has_value THEN ret'.result ELSE ""
              processing == IF has_value
                            THEN applyMoodProcessing(predictedMood, sensitivity)
                            ELSE NoProcessing
          IN blockRet' =
                [op |-> "processBlock",
                 stages |-> <<"updateFilters", "processorChain">>
                            \o (IF ml THEN <<"extractFeaturesFromAudio">> ELSE <<>>)
                            \o (IF has_value THEN <<"predict", "applyMoodProcessing">>
                                ELSE <<>>)
                            \o <<"midSide">>,
                 has_value |-> has_value,
                 predictedMood |-> predictedMood,
                 branch |-> processing.branch,
                 factor |-> processing.factor]
    /\ UNCHANGED <<hasRunner, hasExtractor, hostRate, lastBlock>>

----------------------------------------------------------------------------
(* AIMidiGenerator: messages and the merge pass, ModernUI.h 674-703 *)

MaxMessages == 4

\* a juce::MidiMessage: status nibble, channel 1..16, note number, velocity, time stamp
Msg(kind, channel, note, velocity, timeStamp) ==
    [kind |-> kind, channel |-> channel, note |-> note, velocity |-> velocity,
     timeStamp |-> timeStamp]

\* MidiMessage::isNoteOn(): a 0x90 status with a velocity other than 0
msgIsNoteOn(message) == message.kind = "on" /\ message.velocity # 0

\* MidiMessage::isNoteOff(): a 0x80 status, or a 0x90 status with velocity 0
msgIsNoteOff(message) ==
    message.kind = "off" \/ (message.kind = "on" /\ message.velocity = 0)

NoGenCall == [op |-> "none"]

\* std::max_element over the open note-ons by time stamp: the first of the largest
latestNoteOn(messages, noteOnMessages) ==
    noteOnMessages[
        CHOOSE j \in 1..Len(noteOnMessages) :
            /\ \A k \in 1..Len(noteOnMessages) :
                   messages[noteOnMessages[k]].timeStamp <= messages[noteOnMessages[j]].timeStamp
            /\ \A k \in 1..(j - 1) :
                   messages[noteOnMessages[k]].timeStamp < messages[noteOnMessages[j]].timeStamp]

\* the loop of lines 679-700 from message i on. activeNotes maps a note number to the
\* positions of its open note-ons; closed records, for every note-off that found an
\* entry, the note-on it emitted and the note-ons erased with the entry.
RECURSIVE mergeFrom(_, _, _)
mergeFrom(messages, i, acc) ==
    IF i > Len(messages) THEN acc
    ELSE
    LET message == messages[i]
        note == message.note
    IN  IF msgIsNoteOn(message)
        THEN mergeFrom(messages, i + 1,
                 [acc EXCEPT !.activeNotes[note] = Append(@, i)])
        ELSE IF msgIsNoteOff(message) /\ acc.activeNotes[note] # <<>>
        THEN LET noteOnMessages == acc.activeNotes[note]
                 latest == latestNoteOn(messages, noteOnMessages)
             IN  mergeFrom(messages, i + 1,
                     [activeNotes |-> [acc.activeNotes EXCEPT ![note] = <<>>],
                      mergedMessages |-> acc.mergedMessages \o <<messages[latest], message>>,
                      closed |-> Append(acc.closed,
                                        [off |-> i, on |-> latest,
                                         erased |-> {noteOnMessages[k] :
                                                        k \in 1..Len(noteOnMessages)}])])
        ELSE mergeFrom(messages, i + 1, acc)

mergeOutcome(messages) ==
    mergeFrom(messages, 1,
              [activeNotes |-> [note \in {messages[k].note : k \in 1..Len(messages)} |-> <<>>],
               mergedMessages |-> <<>>,
               closed |-> <<>>])

mergeOverlappingNotes(messages) == mergeOutcome(messages).mergedMessages

\* the messages the pass is given: two pitches on two channels, in time order
MergeMsgs ==
    {Msg(kind, channel, note, 64, timeStamp) :
        kind \in {"on", "off"}, channel \in {1, 2}, note \in {60, 62},
        timeStamp \in {0, Fx(0, 50)}}

TimeOrdered(messages) ==
    \A i \in 1..(Len(messages) - 1) : messages[i].timeStamp <= messages[i + 1].timeStamp

MergeInputs ==
    UNION {{messages \in [1..n -> MergeMsgs] : TimeOrdered(messages)} : n \in 0..MaxMessages}

----------------------------------------------------------------------------
(* AIMidiGenerator::blendPatterns, ModernUI.h 627-672 *)

MaxPatterns == 2
MaxNotes == 2

\* static_cast<int> of a quotient: truncation towards zero
TruncDiv(a, b) ==
    IF b = 0 THEN 0
    ELSE IF (a >= 0) = (b > 0) THEN fabs(a) \div fabs(b)
    ELSE 0 - (fabs(a) \div fabs(b))

\* static_cast<juce::uint8>(v) handed to MidiMessage::noteOn, which stores at most 127
velocityByte(v) == IF v % 256 > 127 THEN 127 ELSE v % 256

\* a base pattern as the mood generators build it: per note a note-on at the running
\* time and a note-off one note length later, all on the channel that noteOn(0, ...)
\* yields; the running time advances by half a second per note
NoteLengths == {Fx(0, 25), Fx(1, 0)}
PatternNotes == [note : {60, 62}, velocity : {90}, length : NoteLengths]

RECURSIVE messagesOf(_, _)
messagesOf(notes, i) ==
    IF i > Len(notes) THEN <<>>
    ELSE <<Msg("on", 1, notes[i].note, notes[i].velocity, (i - 1) * Fx(0, 50)),
           Msg("off", 1, notes[i].note, notes[i].velocity,
               (i - 1) * Fx(0, 50) + notes[i].length)>>
         \o messagesOf(notes, i + 1)

\* patternType, messages and confidence of a GeneratedPattern; a pattern that is never
\* given a confidence keeps the member's initial 0.0f
GeneratedPattern(patternType, messages, confidence) ==
    [patternType |-> patternType, messages |-> messages, confidence |-> confidence]

BasePatterns ==
    {GeneratedPattern("mood", messagesOf(notes, 1), Fx(0, 80)) :
        notes \in UNION {[1..n -> PatternNotes] : n \in 0..MaxNotes}}

Weights == {0 - Fx(0, 50), 0, Fx(0, 50), Fx(1, 0)}

\* lines 649-659: a note-on is rebuilt by MidiMessage::noteOn from channel, note number
\* and the scaled velocity, which leaves the new message's time stamp at 0; any other
\* message is copied
weightedMessage(message, weight, totalWeight) ==
    IF msgIsNoteOn(message)
    THEN LET newVelocity == TruncDiv(message.velocity * weight, totalWeight) IN
         Msg("on", message.channel, message.note, velocityByte(newVelocity), 0)
    ELSE message

RECURSIVE allMessagesFrom(_, _, _, _)
allMessagesFrom(patterns, weights, totalWeight, i) ==
    IF i > Len(patterns) THEN <<>>
    ELSE [k \in 1..Len(patterns[i].messages) |->
             weightedMessage(patterns[i].messages[k], weights[i], totalWeight)]
         \o allMessagesFrom(patterns, weights, totalWeight, i + 1)

Without(sequence, i) == SubSeq(sequence, 1, i - 1) \o SubSeq(sequence, i + 1, Len(sequence))

\* std::sort by time stamp: the messages in non-decreasing time order; the order of
\* messages with equal time stamps is the library's choice
RECURSIVE sort(_)
sort(messages) ==
    IF messages = <<>> THEN {<<>>}
    ELSE UNION {{<<messages[i]>> \o rest : rest \in sort(Without(messages, i))} :
                   i \in {j \in 1..Len(messages) :
                             \A k \in 1..Len(messages) :
                                 messages[j].timeStamp <= messages[k].timeStamp}}

\* every pattern blendPatterns can return for these arguments
blendPatterns(patterns, weights) ==
    LET totalWeight == SumOf(weights) IN
    IF patterns = <<>> THEN {GeneratedPattern("blended", <<>>, 0)}
    ELSE IF totalWeight <= 0 THEN {patterns[1]}
    ELSE {GeneratedPattern("blended", mergeOverlappingNotes(sorted), 0) :
             sorted \in sort(allMessagesFrom(patterns, weights, totalWeight, 1))}

\* lines 635-647: the normalizedWeight weights[i] / totalWeight of each base pattern, as
\* the pair it is divided from; none is computed when blendPatterns returns early
normalizedWeights(patterns, weights) ==
    LET totalWeight == SumOf(weights) IN
    IF patterns = <<>> \/ totalWeight <= 0 THEN <<>>
    ELSE [i \in 1..Len(patterns) |-> [by |-> weights[i], divisor |-> totalWeight]]

----------------------------------------------------------------------------
(* AIMidiGenerator::generateIntensifiedMoodPattern, ModernUI.h 516-588 *)

MaxIntensity == 3

jlimit(lo, hi, value) == IF value < lo THEN lo ELSE IF value > hi THEN hi ELSE value

\* the ten moods and a string that names none of them
GeneratorMoods ==
    {"chill", "energetic", "suspenseful", "uplifting", "ominous",
     "romantic", "gritty", "dreamy", "frantic", "focused", "other"}

getMoodScale(mood) ==
    IF mood = "chill" \/ mood = "dreamy" THEN <<0, 2, 4, 5, 7, 9, 11>>
    ELSE IF mood = "energetic" \/ mood = "frantic" THEN <<0, 2, 4, 6, 7, 9, 11>>
    ELSE IF mood = "suspenseful" \/ mood = "ominous" THEN <<0, 2, 3, 5, 7, 8, 10>>
    ELSE IF mood = "uplifting" THEN <<0, 2, 4, 5, 7, 9, 11>>
    ELSE IF mood = "romantic" THEN <<0, 2, 4, 5, 7, 9, 11>>
    ELSE IF mood = "gritty" THEN <<0, 3, 5, 6, 7, 10>>
    ELSE IF mood = "focused" THEN <<0, 2, 4, 7, 9>>
    ELSE <<0, 2, 4, 5, 7, 9, 11>>

getMoodRhythm(mood) ==
    IF mood = "chill" \/ mood = "dreamy" THEN Fx(0, 80)
    ELSE IF mood = "energetic" \/ mood = "frantic" THEN Fx(0, 20)
    ELSE IF mood = "suspenseful" \/ mood = "ominous" THEN Fx(0, 60)
    ELSE IF mood = "uplifting" THEN Fx(0, 30)
    ELSE IF mood = "romantic" THEN Fx(0, 50)
    ELSE IF mood = "gritty" THEN Fx(0, 25)
    ELSE IF mood = "focused" THEN Fx(0, 40)
    ELSE Fx(0, 50)

getMoodVelocity(mood) ==
    IF mood = "chill" \/ mood = "dreamy" THEN 50
    ELSE IF mood = "energetic" \/ mood = "frantic" THEN 90
    ELSE IF mood = "suspenseful" \/ mood = "ominous" THEN 60
    ELSE IF mood = "uplifting" THEN 80
    ELSE IF mood = "romantic" THEN 65
    ELSE IF mood = "gritty" THEN 85
    ELSE IF mood = "focused" THEN 70
    ELSE 70

\* juce::Random as the sequence of fractions of the range its calls return, in
\* hundredths, repeated when it runs out
RandomStreams == {<<0>>, <<99>>, <<0, 99>>}
draw(stream, r) == stream[((r - 1) % Len(stream)) + 1]
nextInt(stream, r, maxValue) == (maxValue * draw(stream, r)) \div 100
nextFloat(stream, r) == draw(stream, r)

\* mutant: the velocity factor falls with the intensity
intensityMultiplier_Falling(intensity) == Fx(1, 0) - (intensity - 1) * Fx(0, 30)

\* line 528
intensityMultiplier(intensity) == Fx(1, 0) + (intensity - 1) * Fx(0, 30)

\* mutant: the density factor falls with the intensity
densityMultiplier_Falling(intensity) == Fx(1, 0) - (intensity - 1) * Fx(0, 20)

\* line 529
densityMultiplier(intensity) == Fx(1, 0) + (intensity - 1) * Fx(0, 20)

\* line 530
complexityMultiplier(intensity) == Fx(1, 0) + (intensity - 1) * Fx(0, 25)

\* line 533: static_cast<int>(duration * 4 * densityMultiplier)
intensifiedNoteCount(intensity, duration) ==
    TruncDiv(duration * 4 * densityMultiplier(intensity), Fx(100, 0))

\* one turn of the loop, lines 537-579: the two messages pushed, the time step, and
\* the position in the random stream afterwards. r is the position before the turn.
intensifiedNote(mood, intensity, i, currentTime, stream, r) ==
    LET scale == getMoodScale(mood)
        scaleIndex == i % Len(scale)
        octave == 4 + (i \div Len(scale))
        plainNote == jlimit(36, 84, scale[scaleIndex + 1] + octave * 12)
        plainVelocity ==
            jlimit(1, 127, TruncDiv(getMoodVelocity(mood) * intensityMultiplier(intensity), 100))
        complexity == complexityMultiplier(intensity)
        varied == intensity > 1
        chromatic == varied /\ nextFloat(stream, r) * 100 < complexity * 30
        rVelocity == IF ~varied THEN r ELSE IF chromatic THEN r + 2 ELSE r + 1
        note == IF chromatic
                THEN jlimit(36, 84, plainNote + nextInt(stream, r + 1, 3) - 1)
                ELSE plainNote
        velocityVariation ==
            nextInt(stream, rVelocity, TruncDiv(20 * complexity, 100))
                - TruncDiv(10 * complexity, 100)
        intensifiedVelocity ==
            IF varied THEN jlimit(1, 127, plainVelocity + velocityVariation)
            ELSE plainVelocity
        rLength == IF varied THEN rVelocity + 1 ELSE r
        evenLength == TruncDiv(getMoodRhythm(mood) * 100, intensityMultiplier(intensity))
        noteLength ==
            IF intensity > 2
            THEN TruncDiv(evenLength * (70 + TruncDiv(nextFloat(stream, rLength) * 60, 100)), 100)
            ELSE evenLength
        rStep == IF intensity > 2 THEN rLength + 1 ELSE rLength
        timeStep ==
            IF varied
            THEN TruncDiv(evenLength * (80 + TruncDiv(nextFloat(stream, rStep) * 40, 100)), 100)
            ELSE evenLength
    IN  [messages |->
             <<Msg("on", 1, note, velocityByte(intensifiedVelocity), currentTime),
               Msg("off", 1, note, velocityByte(intensifiedVelocity), currentTime + noteLength)>>,
         timeStep |-> timeStep,
         r |-> IF varied THEN rStep + 1 ELSE r]

RECURSIVE intensifiedFrom(_, _, _, _, _, _, _)
intensifiedFrom(mood, intensity, noteCount, i, currentTime, stream, r) ==
    IF i >= noteCount THEN <<>>
    ELSE LET turn == intensifiedNote(mood, intensity, i, currentTime, stream, r) IN
         turn.messages
         \o intensifiedFrom(mood, intensity, noteCount, i + 1, currentTime + turn.timeStep,
                            stream, turn.r)

\* lines 583-585
intensifiedConfidence(intensity) == jlimit(0, Fx(1, 0), Fx(0, 80) + (intensity - 1) * 5)

generateIntensifiedMoodPattern(mood, intensity, duration, stream) ==
    [patternType |-> "intensified-" \o mood,
     messages |-> intensifiedFrom(mood, intensity, intensifiedNoteCount(intensity, duration),
                                  0, 0, stream, 1),
     confidence |-> intensifiedConfidence(intensity)]

\* the pattern lengths asked for: one second and four seconds
Durations == {Fx(1, 0), Fx(4, 0)}

noteOnVelocities(messages) ==
    SelectSeq([k \in 1..Len(messages) |->
                  IF msgIsNoteOn(messages[k]) THEN messages[k].velocity ELSE 0],
              LAMBDA v : v > 0)

\* what is kept of a returned call for comparison with the next
summaryOf(call) ==
    IF call.op = "generateIntensifiedMoodPattern"
    THEN [op |-> call.op, mood |-> call.mood, intensity |-> call.intensity,
          duration |-> call.duration,
          velocities |-> noteOnVelocities(call.result.messages)]
    ELSE NoGenCall

----------------------------------------------------------------------------
(* AIMidiGenerator::generateHybridPattern, ModernUI.h 447-514, 832-886, 930-936 *)

MaxMoods == 3

\* the loops of generateChillPattern (996-1010) and generateEnergeticPattern (1026-1040)
\* from turn i on: a random note above 60, a random velocity above a floor, a fixed
\* note length, a step with a random part. r is the position in the random stream.
RECURSIVE moodNotesFrom(_, _, _, _, _, _)
moodNotesFrom(shape, noteCount, i, currentTime, stream, r) ==
    IF i >= noteCount THEN [messages |-> <<>>, r |-> r]
    ELSE
    LET note == 60 + nextInt(stream, r, shape.noteSpan)
        velocity == shape.velocityFloor + nextInt(stream, r + 1, shape.velocitySpan)
        step == shape.step + TruncDiv(nextFloat(stream, r + 2) * shape.stepSpan, 100)
        rest == moodNotesFrom(shape, noteCount, i + 1, currentTime + step, stream, r + 3)
    IN  [messages |->
             <<Msg("on", 1, note, velocityByte(velocity), currentTime),
               Msg("off", 1, note, velocityByte(velocity), currentTime + shape.noteLength)>>
             \o rest.messages,
         r |-> rest.r]

generateChillPattern(duration, stream, r) ==
    LET notes == moodNotesFrom([noteSpan |-> 12, velocityFloor |-> 40, velocitySpan |-> 30,
                                noteLength |-> Fx(1, 0), step |-> Fx(0, 50),
                                stepSpan |-> Fx(0, 50)],
                               TruncDiv(duration * 2, 100), 0, 0, stream, r)
    IN  [pattern |-> GeneratedPattern("chill", notes.messages, Fx(0, 80)), r |-> notes.r]

generateEnergeticPattern(duration, stream, r) ==
    LET notes == moodNotesFrom([noteSpan |-> 24, velocityFloor |-> 80, velocitySpan |-> 40,
                                noteLength |-> Fx(0, 10), step |-> Fx(0, 10),
                                stepSpan |-> Fx(0, 10)],
                               TruncDiv(duration * 8, 100), 0, 0, stream, r)
    IN  [pattern |-> GeneratedPattern("energetic", notes.messages, Fx(0, 90)), r |-> notes.r]

\* the moods hybrid generation is asked for here: two that have a generator of their
\* own and a string that has none
HybridMoods == {"chill", "energetic", "other"}

\* lines 447-466, for the moods of HybridMoods
generateMoodPattern(mood, duration, stream, r) ==
    IF mood = "chill" THEN generateChillPattern(duration, stream, r)
    ELSE IF mood = "energetic" THEN generateEnergeticPattern(duration, stream, r)
    ELSE [pattern |-> GeneratedPattern("melody", <<>>, Fx(0, 50)), r |-> r]

\* lines 857-886
RECURSIVE defaultNotesFrom(_, _, _)
defaultNotesFrom(noteCount, i, currentTime) ==
    IF i >= noteCount THEN <<>>
    ELSE LET note == <<60, 62, 64, 65, 67, 69, 71>>[(i % 7) + 1] IN
         <<Msg("on", 1, note, 70, currentTime), Msg("off", 1, note, 70, currentTime + Fx(0, 50))>>
         \o defaultNotesFrom(noteCount, i + 1, currentTime + Fx(0, 50))

generateDefaultPattern(duration) ==
    GeneratedPattern("default", defaultNotesFrom(TruncDiv(duration * 4, 100), 0, 0), Fx(0, 70))

\* lines 502-506: one base pattern per mood, drawn one after the other
RECURSIVE basePatternsFrom(_, _, _, _, _)
basePatternsFrom(moods, i, duration, stream, r) ==
    IF i > Len(moods) THEN <<>>
    ELSE LET made == generateMoodPattern(moods[i], duration, stream, r) IN
         <<made.pattern>> \o basePatternsFrom(moods, i + 1, duration, stream, made.r)

\* lines 840-844: the sum of pattern.confidence * weights[i], each confidence taken
\* from a pattern generated for one second
RECURSIVE totalConfidenceFrom(_, _, _, _)
totalConfidenceFrom(moods, weights, i, stream) ==
    IF i > Len(moods) THEN 0
    ELSE generateMoodPattern(moods[i], Fx(1, 0), stream, 1).pattern.confidence * weights[i]
         + totalConfidenceFrom(moods, weights, i + 1, stream)

\* lines 851-852: 1 - (moods.size() - 1) * 0.1, limited to 0.5 .. 1.0
complexityPenalty(moods) == jlimit(Fx(0, 50), Fx(1, 0), Fx(1, 0) - (Len(moods) - 1) * Fx(0, 10))

\* lines 832-855, in hundredths: baseConfidence * complexityPenalty
calculateHybridConfidence(moods, weights, stream) ==
    IF moods = <<>> THEN 0
    ELSE LET totalConfidence == totalConfidenceFrom(moods, weights, 1, stream)
             totalWeight == SumOf(weights)
         IN  IF totalWeight <= 0 THEN 0
             ELSE TruncDiv(totalConfidence * complexityPenalty(moods), totalWeight * 100)

\* lines 480-486 with the loop starting one element late
isSameMoodIntensification_LateStart(moods) == \A i \in 3..Len(moods) : moods[i] = moods[1]

\* lines 480-486: no mood after the first differs from the first
isSameMoodIntensification(moods) == \A i \in 2..Len(moods) : moods[i] = moods[1]

\* what a hybrid call did besides returning a pattern: the generator it went through,
\* the intensity handed to generateIntensifiedMoodPattern and the number of base
\* patterns handed to blendPatterns
HybridOutcome(pattern, algorithm, intensity, basePatterns) ==
    [pattern |-> pattern, algorithm |-> algorithm, intensity |-> intensity,
     basePatterns |-> basePatterns]

\* lines 469-514: every outcome the call can have for these arguments
generateHybridPatternOutcome(moods, weights, duration, stream) ==
    IF moods = <<>> \/ Len(moods) # Len(weights)
    THEN {HybridOutcome(generateDefaultPattern(duration), "default", 0, 0)}
    ELSE
    LET confidence == calculateHybridConfidence(moods, weights, stream)
        basePatterns == basePatternsFrom(moods, 1, duration, stream, 1)
    IN  IF isSameMoodIntensification(moods)
        THEN {HybridOutcome(
                  [generateIntensifiedMoodPattern(moods[1], Len(moods), duration, stream)
                      EXCEPT !.confidence = confidence],
                  "intensified", Len(moods), 0)}
        ELSE IF SumOf(weights) <= 0
        THEN {HybridOutcome(generateDefaultPattern(duration), "default", 0, 0)}
        ELSE {HybridOutcome([pattern EXCEPT !.confidence = confidence], "blend", 0,
                            Len(basePatterns)) :
                 pattern \in blendPatterns(basePatterns, weights)}

\* every pattern the call can return for these arguments
generateHybridPattern(moods, weights, duration, stream) ==
    {outcome.pattern : outcome \in generateHybridPatternOutcome(moods, weights, duration, stream)}

\* lines 932-934: repetitions copies of the mood, each with weight 1 / repetitions
sameMoodArguments(mood, repetitions) ==
    [moods |-> [i \in 1..repetitions |-> mood],
     weights |-> [i \in 1..repetitions |-> TruncDiv(Fx(1, 0), repetitions)]]

\* lines 930-936
generateSameMoodPatternOutcome(mood, repetitions, duration, stream) ==
    generateHybridPatternOutcome(sameMoodArguments(mood, repetitions).moods,
                                 sameMoodArguments(mood, repetitions).weights,
                                 duration, stream)

HybridWeights == {0, Fx(0, 50), Fx(1, 0)}
HybridDurations == {Fx(0, 13)}
MoodLists == UNION {[1..n -> HybridMoods] : n \in 0..MaxMoods}
WeightLists == UNION {[1..n -> HybridWeights] : n \in 0..MaxMoods}

----------------------------------------------------------------------------
(* EmotionalOptimizer, EmotionalOptimizer.cpp 1-43, 199-210 *)

\* an EmotionalProfile; the six arguments are hundredths, the fields count
\* ten-thousandths so that a product of a profile value and a blend weight is exact
EmotionalProfile(energy, tension, complexity, danceability, warmth, brightness) ==
    [energy |-> energy * 100, tension |-> tension * 100, complexity |-> complexity * 100,
     danceability |-> danceability * 100, warmth |-> warmth * 100,
     brightness |-> brightness * 100]

\* the member initializers of EmotionalProfile, also the neutral profile of line 40
NeutralProfile == EmotionalProfile(50, 50, 50, 50, 50, 50)

\* initializeMoodProfiles, lines 12-25
KnownMoods ==
    {"chill", "energetic", "suspenseful", "uplifting", "ominous",
     "romantic", "gritty", "dreamy", "frantic", "focused"}

moodProfiles(mood) ==
    CASE mood = "chill" -> EmotionalProfile(20, 10, 30, 40, 80, 60)
      [] mood = "energetic" -> EmotionalProfile(90, 60, 70, 90, 40, 90)
      [] mood = "suspenseful" -> EmotionalProfile(60, 90, 80, 30, 20, 40)
      [] mood = "uplifting" -> EmotionalProfile(80, 20, 50, 80, 70, 90)
      [] mood = "ominous" -> EmotionalProfile(40, 80, 60, 20, 10, 20)
      [] mood = "romantic" -> EmotionalProfile(30, 30, 70, 50, 90, 70)
      [] mood = "gritty" -> EmotionalProfile(70, 70, 60, 60, 30, 50)
      [] mood = "dreamy" -> EmotionalProfile(20, 10, 80, 30, 80, 80)
      [] mood = "frantic" -> EmotionalProfile(95, 90, 90, 70, 20, 80)
      [] mood = "focused" -> EmotionalProfile(60, 40, 40, 60, 50, 60)

\* primary * blend + secondary * (1.0f - blend) with the fraction at the second factor
\* replaced by blend
blendProfiles_SameFactor(primary, secondary, blend) ==
    [d \in DOMAIN primary |-> TruncDiv(primary[d] * blend + secondary[d] * blend, Fx(1, 0))]

\* lines 199-210: primary * blend + secondary * (1.0f - blend) in each dimension
blendProfiles(primary, secondary, blend) ==
    [d \in DOMAIN primary |->
        TruncDiv(primary[d] * blend + secondary[d] * (Fx(1, 0) - blend), Fx(1, 0))]

NoOptimizerCall == [op |-> "none"]

\* lines 27-43
setMoodProfile(primaryMood, secondaryMood) ==
    LET profile == IF primaryMood \in KnownMoods /\ secondaryMood \in KnownMoods
                   THEN blendProfiles(moodProfiles(primaryMood), moodProfiles(secondaryMood),
                                      Fx(0, 70))
                   ELSE NeutralProfile
    IN  /\ currentProfile' = profile
        /\ targetProfile' = profile
        /\ eoRet' = [op |-> "setMoodProfile", primaryMood |-> primaryMood,
                     secondaryMood |-> secondaryMood]

\* the blend fractions blendProfiles is called with
BlendWeights == {0, Fx(0, 30), Fx(0, 70), Fx(1, 0)}

----------------------------------------------------------------------------
(* GrooveShaper, GrooveShaper.cpp 320-493 *)

GrooveProfile(humanization, swingAmount, accentPattern, microTiming, velocityVariation, ghostNotes) ==
    [humanization |-> humanization, swingAmount |-> swingAmount,
     accentPattern |-> accentPattern, microTiming |-> microTiming,
     velocityVariation |-> velocityVariation, ghostNotes |-> ghostNotes]

NoShaperCall == [op |-> "none"]

\* initializeGrooveProfiles, lines 329-342
grooveProfiles(mood) ==
    CASE mood = "chill" -> GrooveProfile(80, 30, 20, 70, 30, 10)
      [] mood = "energetic" -> GrooveProfile(60, 10, 90, 30, 80, 20)
      [] mood = "suspenseful" -> GrooveProfile(40, 0, 70, 20, 60, 0)
      [] mood = "uplifting" -> GrooveProfile(70, 20, 80, 50, 60, 10)
      [] mood = "ominous" -> GrooveProfile(30, 0, 50, 10, 40, 0)
      [] mood = "romantic" -> GrooveProfile(90, 40, 30, 80, 40, 20)
      [] mood = "gritty" -> GrooveProfile(50, 10, 80, 40, 70, 30)
      [] mood = "dreamy" -> GrooveProfile(80, 50, 20, 90, 30, 30)
      [] mood = "frantic" -> GrooveProfile(30, 0, 90, 10, 90, 10)
      [] mood = "focused" -> GrooveProfile(40, 0, 60, 20, 50, 0)

\* lines 344-367: the mood's profile, each dimension times intensity, limited to 0..1;
\* an unknown mood leaves the current profile as it is
setGrooveProfile(mood, intensity) ==
    /\ currentGrooveProfile' =
           IF mood \in KnownMoods
           THEN [d \in DOMAIN grooveProfiles(mood) |->
                    jlimit(0, Fx(1, 0), TruncDiv(grooveProfiles(mood)[d] * intensity, Fx(1, 0)))]
           ELSE currentGrooveProfile
    /\ gsRet' = [op |-> "setGrooveProfile", mood |-> mood, intensity |-> intensity]

\* std::fmod and std::round on hundredths
fmod(a, b) == IF a >= 0 THEN a % b ELSE 0 - ((0 - a) % b)
round(a) == IF a >= 0 THEN ((a + 50) \div 100) * 100 ELSE 0 - (((0 - a + 50) \div 100) * 100)

\* lines 537-557; beat positions are hundredths of a beat, tempo is beats per minute
getBeatPosition(timeInSeconds, tempo, timeSignature) ==
    fmod(TruncDiv(timeInSeconds * tempo, 60), timeSignature)
isOnBeat(beatPosition) == fabs(beatPosition - round(beatPosition)) < Fx(0, 10)
isOffBeat(beatPosition) == ~isOnBeat(beatPosition) /\ beatPosition > 0
isStrongBeat(beatPosition, timeSignature) ==
    LET beatInMeasure == fmod(beatPosition, timeSignature) IN
    beatInMeasure < Fx(0, 10) \/ fabs(beatInMeasure - Fx(2, 0)) < Fx(0, 10)

\* lines 495-504
calculateSwingOffset(beatPosition, swingAmount) ==
    IF beatPosition >= Fx(0, 50) /\ beatPosition < Fx(1, 0)
    THEN TruncDiv((beatPosition - Fx(0, 50)) * 2 * swingAmount, 1000)
    ELSE 0

\* lines 506-511, for the random fraction drawn
calculateMicroTimingOffset(microTiming, fraction) ==
    TruncDiv((fraction - Fx(0, 50)) * 2 * microTiming * 5, 10000)

\* lines 513-529
calculateAccentMultiplier(beatPosition, accentPattern, timeSignature) ==
    jlimit(Fx(0, 10), Fx(2, 0),
           IF isStrongBeat(beatPosition, timeSignature)
           THEN Fx(1, 0) + TruncDiv(accentPattern * 50, 100)
           ELSE IF isOffBeat(beatPosition)
           THEN Fx(1, 0) - TruncDiv(accentPattern * 30, 100)
           ELSE Fx(1, 0))

\* lines 531-535, as the whole number static_cast<int> makes of it
calculateVelocityVariation(baseVelocity, variation, fraction) ==
    LET variationAmount == TruncDiv((fraction - Fx(0, 50)) * 2 * variation, 100) IN
    TruncDiv(baseVelocity * (10000 + variationAmount * 30), 10000)

\* lines 577-585
shouldAddGhostNote(beatPosition, ghostAmount, fraction) ==
    IF isOffBeat(beatPosition) THEN fraction * 100 < ghostAmount * 30
    ELSE fraction * 100 < ghostAmount * 10

\* lines 381-401; every message of the lists here is a note-on or a note-off
applySwing(midiMessages, swingAmount, tempo) ==
    IF swingAmount <= 0 THEN midiMessages
    ELSE [k \in 1..Len(midiMessages) |->
            LET message == midiMessages[k]
                beatPosition == getBeatPosition(message.timeStamp, tempo, Fx(4, 0))
            IN  IF (msgIsNoteOn(message) \/ msgIsNoteOff(message)) /\ isOffBeat(beatPosition)
                THEN [message EXCEPT !.timeStamp =
                         @ + TruncDiv(calculateSwingOffset(beatPosition, swingAmount) * 60,
                                      tempo)]
                ELSE message]

\* lines 403-420; the k-th message takes the (r + k - 1)-th random fraction
applyMicroTiming(midiMessages, microTiming, tempo, stream, r) ==
    IF microTiming <= 0 THEN [messages |-> midiMessages, r |-> r]
    ELSE [messages |->
             [k \in 1..Len(midiMessages) |->
                 [midiMessages[k] EXCEPT !.timeStamp =
                     @ + TruncDiv(calculateMicroTimingOffset(
                                      microTiming, nextFloat(stream, r + k - 1)) * 60, tempo)]],
          r |-> r + Len(midiMessages)]

\* lines 422-438 returning early only for a negative amount
applyAccentPattern_NoEarlyReturn(midiMessages, accentPattern, timeSignature) ==
    IF accentPattern < 0 THEN midiMessages
    ELSE [k \in 1..Len(midiMessages) |->
            LET message == midiMessages[k]
                beatPosition == getBeatPosition(message.timeStamp, 120, timeSignature)
                accentMultiplier ==
                    calculateAccentMultiplier(beatPosition, accentPattern, timeSignature)
                newVelocity == jlimit(1, 127, TruncDiv(message.velocity * accentMultiplier, 100))
            IN  IF msgIsNoteOn(message)
                THEN Msg("on", message.channel, message.note, velocityByte(newVelocity), 0)
                ELSE message]

\* lines 422-438: a note-on is replaced by MidiMessage::noteOn(channel, note, velocity),
\* whose time stamp is 0
applyAccentPattern(midiMessages, accentPattern, timeSignature) ==
    IF accentPattern <= 0 THEN midiMessages
    ELSE [k \in 1..Len(midiMessages) |->
            LET message == midiMessages[k]
                beatPosition == getBeatPosition(message.timeStamp, 120, timeSignature)
                accentMultiplier ==
                    calculateAccentMultiplier(beatPosition, accentPattern, timeSignature)
                newVelocity == jlimit(1, 127, TruncDiv(message.velocity * accentMultiplier, 100))
            IN  IF msgIsNoteOn(message)
                THEN Msg("on", message.channel, message.note, velocityByte(newVelocity), 0)
                ELSE message]

\* the number of note-ons among the first k - 1 messages
noteOnsBefore(midiMessages, k) ==
    Cardinality({j \in 1..(k - 1) : msgIsNoteOn(midiMessages[j])})

\* lines 440-454: each note-on draws one random fraction and is replaced by
\* MidiMessage::noteOn(channel, note, velocity), whose time stamp is 0
applyVelocityVariation(midiMessages, variation, stream, r) ==
    IF variation <= 0 THEN [messages |-> midiMessages, r |-> r]
    ELSE [messages |->
             [k \in 1..Len(midiMessages) |->
                 LET message == midiMessages[k]
                     fraction == nextFloat(stream, r + noteOnsBefore(midiMessages, k))
                     newVelocity ==
                         jlimit(1, 127,
                                calculateVelocityVariation(message.velocity, variation, fraction))
                 IN  IF msgIsNoteOn(message)
                     THEN Msg("on", message.channel, message.note, velocityByte(newVelocity), 0)
                     ELSE message],
          r |-> r + noteOnsBefore(midiMessages, Len(midiMessages) + 1)]

\* lines 462-490: every message is kept, and a note-on the random draw picks is
\* followed at once by a softer note-on half a beat later and its note-off
RECURSIVE ghostNotesFrom(_, _, _, _, _, _)
ghostNotesFrom(midiMessages, k, ghostAmount, tempo, stream, r) ==
    IF k > Len(midiMessages) THEN <<>>
    ELSE
    LET message == midiMessages[k]
        beatPosition == getBeatPosition(message.timeStamp, tempo, Fx(4, 0))
        ghostVelocity == jlimit(1, 127, TruncDiv(message.velocity * 30, 100))
        ghostTime == message.timeStamp + TruncDiv(Fx(0, 50) * 60, tempo)
    IN  IF ~msgIsNoteOn(message)
        THEN <<message>> \o ghostNotesFrom(midiMessages, k + 1, ghostAmount, tempo, stream, r)
        ELSE IF shouldAddGhostNote(beatPosition, ghostAmount, nextFloat(stream, r))
        THEN <<message,
               Msg("on", message.channel, message.note, velocityByte(ghostVelocity), ghostTime),
               Msg("off", message.channel, message.note, velocityByte(ghostVelocity),
                   ghostTime + Fx(0, 10))>>
             \o ghostNotesFrom(midiMessages, k + 1, ghostAmount, tempo, stream, r + 1)
        ELSE <<message>>
             \o ghostNotesFrom(midiMessages, k + 1, ghostAmount, tempo, stream, r + 1)

\* lines 456-493
addGhostNotes(midiMessages, ghostAmount, tempo, stream, r) ==
    IF ghostAmount <= 0 THEN midiMessages
    ELSE ghostNotesFrom(midiMessages, 1, ghostAmount, tempo, stream, r)

\* lines 369-379: the five passes in order over the caller's list, with the current
\* profile's amounts
processGroove(midiMessages, tempo, timeSignature, stream) ==
    IF midiMessages = <<>> THEN midiMessages
    ELSE
    LET swung == applySwing(midiMessages, currentGrooveProfile.swingAmount, tempo)
        timed == applyMicroTiming(swung, currentGrooveProfile.microTiming, tempo, stream, 1)
        accented == applyAccentPattern(timed.messages, currentGrooveProfile.accentPattern,
                                       timeSignature)
        varied == applyVelocityVariation(accented, currentGrooveProfile.velocityVariation,
                                         stream, timed.r)
    IN  addGhostNotes(varied.messages, currentGrooveProfile.ghostNotes, tempo, stream, varied.r)

\* the arguments of the calls: moods with and without a profile, intensities from 0 to
\* above 1, lists as the generators build them, tempos in beats per minute
Intensities == {0, Fx(0, 80), Fx(1, 0), Fx(2, 0)}
Tempos == {90, 120}
TimeSignatures == {Fx(3, 0), Fx(4, 0)}
Amounts == {0, Fx(0, 30), Fx(1, 0)}
ShaperMessages == {pattern.messages : pattern \in BasePatterns}

----------------------------------------------------------------------------
(* Specifications *)

\* the profiles of a freshly constructed optimizer are the member initializers
InitOptimizer ==
    /\ currentProfile = NeutralProfile
    /\ targetProfile = NeutralProfile
    /\ eoRet = NoOptimizerCall

\* a freshly constructed shaper: GrooveProfile's member initializers
InitShaper ==
    /\ currentGrooveProfile = GrooveProfile(Fx(0, 50), 0, Fx(0, 50), Fx(0, 50), Fx(0, 50), 0)
    /\ gsRet = NoShaperCall

\* neither thread is inside a callback; the editor's constructor sets the label's
\* first text (PluginEditor.cpp 300)
InitThreads ==
    /\ timerPc = "idle"
    /\ audioPc = [at |-> "idle"]
    /\ modelStatusLabel = "MODEL: LOADING..."

\* ModelRunner's constructor: modelLoaded(false), then loadModel(modelPath)
Construct(modelPath) ==
    LET after == loadModelFrom(FALSE, NoSession, modelPath) IN
    /\ modelLoaded = after.modelLoaded
    /\ session = after.session
    /\ ret = LoadRet(modelPath, after.ok)

InitModelRunner == \E modelPath \in Paths : Construct(modelPath)

InitMidi == midiRet = NoMidiCall

InitGenerator == genRet = NoGenCall /\ lastGen = NoGenCall

\* a processor whose prepareToPlay built the runner and the extractor; no callback yet
InitPrepared ==
    /\ hasRunner = TRUE
    /\ hasExtractor = TRUE
    /\ hostRate = MaxSampleRate
    /\ blockRet = NoBlock
    /\ lastBlock = NoBlock

\* FeatureExtractor's constructor: empty histories with MAX_HISTORY_SIZE reserved
InitFeatureExtractor ==
    /\ audioHistory = <<>>
    /\ velocityHistory = <<>>
    /\ pitchHistory = <<>>
    /\ lastAnalysisTime = 0
    /\ capacity = MAX_HISTORY_SIZE
    /\ arrived = <<>>
    /\ feRet = NoFeCall

Init == InitModelRunner /\ InitFeatureExtractor /\ InitMidi /\ InitPrepared /\ InitGenerator /\ InitOptimizer /\ InitShaper /\ InitThreads

\* the caller makes one call at a time and takes its result before the next
LoadModel == ret = NoCall /\ UNCHANGED <<feVars, midiVars, plVars, genVars, eoVars, gsVars, thVars>> /\ \E modelPath \in Paths : loadModel(modelPath)
UnloadModel == ret = NoCall /\ UNCHANGED <<feVars, midiVars, plVars, genVars, eoVars, gsVars, thVars>> /\ unloadModel
Predict ==
    /\ ret = NoCall
    /\ UNCHANGED <<feVars, midiVars, plVars, genVars, eoVars, gsVars, thVars>>
    /\ \E features \in FeatureVecs, run \in RunOutcomes : predict(features, run)
PredictProbabilities ==
    /\ ret = NoCall
    /\ UNCHANGED <<feVars, midiVars, plVars, genVars, eoVars, gsVars, thVars>>
    /\ \E features \in FeatureVecs, run \in RunOutcomes : predictProbabilities(features, run)
ReturnToCaller ==
    /\ ret # NoCall
    /\ ret' = NoCall
    /\ UNCHANGED <<modelLoaded, session>>
    /\ UNCHANGED <<feVars, midiVars, plVars, genVars, eoVars, gsVars, thVars>>

NextModelRunner ==
    \/ LoadModel
    \/ UnloadModel
    \/ Predict
    \/ PredictProbabilities
    \/ ReturnToCaller

SpecModelRunner == Init /\ [][NextModelRunner]_vars

Ingest ==
    /\ feRet = NoFeCall
    /\ UNCHANGED <<mrVars, midiVars, plVars, genVars, eoVars, gsVars, thVars>>
    /\ \E buffer \in Buffers, sampleRate \in SampleRates :
          /\ Len(arrived) + getNumChannels(buffer) * getNumSamples(buffer) <= MaxArrived
          /\ extractFeaturesFromAudio(buffer, sampleRate)
Reset == feRet = NoFeCall /\ UNCHANGED <<mrVars, midiVars, plVars, genVars, eoVars, gsVars, thVars>> /\ reset
ReturnFromExtractor ==
    /\ feRet # NoFeCall
    /\ feRet' = NoFeCall
    /\ UNCHANGED <<audioHistory, velocityHistory, pitchHistory, lastAnalysisTime, capacity,
                   arrived>>
    /\ UNCHANGED <<mrVars, midiVars, plVars, genVars, eoVars, gsVars, thVars>>

NextFeatureExtractor ==
    \/ Ingest
    \/ Reset
    \/ ReturnFromExtractor

\* the extractor next to a runner that was built from the shipped model and is idle
InitExtractorOnly == Construct("good") /\ InitFeatureExtractor /\ InitMidi /\ InitPrepared /\ InitGenerator /\ InitOptimizer /\ InitShaper /\ InitThreads

SpecFeatureExtractor == InitExtractorOnly /\ [][NextFeatureExtractor]_vars

\* the batch extractor reads a file and touches no member of the extractor
ExtractFromMidi ==
    /\ midiRet = NoMidiCall
    /\ UNCHANGED <<mrVars, feVars, plVars, genVars, eoVars, gsVars, thVars>>
    /\ \E midi \in MidiFiles : extractFeaturesFromMidi(midi)
ReturnFromMidi ==
    /\ midiRet # NoMidiCall
    /\ midiRet' = NoMidiCall
    /\ UNCHANGED <<mrVars, feVars, plVars, genVars, eoVars, gsVars, thVars>>

NextMidi ==
    \/ ExtractFromMidi
    \/ ReturnFromMidi

SpecMidi == InitExtractorOnly /\ [][NextMidi]_vars

\* the processor as constructed: neither runner nor extractor yet
InitProcessor ==
    /\ hasRunner = FALSE
    /\ hasExtractor = FALSE
    /\ hostRate = 0
    /\ blockRet = NoBlock
    /\ lastBlock = NoBlock
    /\ modelLoaded = FALSE
    /\ session = NoSession
    /\ ret = NoCall
    /\ InitFeatureExtractor
    /\ InitMidi
    /\ InitGenerator /\ InitOptimizer /\ InitShaper /\ InitThreads

PrepareToPlay ==
    /\ blockRet = NoBlock
    /\ UNCHANGED <<midiVars, genVars, eoVars, gsVars, thVars>>
    /\ \E sampleRate \in SampleRates, modelPath \in Paths : prepareToPlay(sampleRate, modelPath)

\* the host calls processBlock only between prepareToPlay and releaseResources
ProcessBlock ==
    /\ blockRet = NoBlock
    /\ hasExtractor
    /\ UNCHANGED <<midiVars, genVars, eoVars, gsVars, thVars>>
    /\ \E buffer \in PipelineBuffers, mlEnabled \in BOOLEAN, sensitivity \in Sensitivities,
          features \in PipelineFeatures, run \in PipelineRuns :
          /\ Len(arrived) + getNumChannels(buffer) * getNumSamples(buffer) <= MaxArrived
          /\ processBlock(buffer, mlEnabled, sensitivity, features, run)

ReturnFromCallback ==
    /\ blockRet # NoBlock
    /\ lastBlock' = blockRet
    /\ blockRet' = NoBlock
    /\ ret' = NoCall
    /\ feRet' = NoFeCall
    /\ UNCHANGED <<modelLoaded, session, audioHistory, velocityHistory, pitchHistory,
                   lastAnalysisTime, capacity, arrived, hasRunner, hasExtractor, hostRate>>
    /\ UNCHANGED <<midiVars, genVars, eoVars, gsVars, thVars>>

NextProcessor ==
    \/ PrepareToPlay
    \/ ProcessBlock
    \/ ReturnFromCallback

SpecProcessor == InitProcessor /\ [][NextProcessor]_vars

MergeOverlappingNotes ==
    /\ genRet = NoGenCall
    /\ UNCHANGED <<mrVars, feVars, midiVars, plVars, lastGen, eoVars, gsVars, thVars>>
    /\ \E messages \in MergeInputs :
          LET outcome == mergeOutcome(messages) IN
          genRet' = [op |-> "mergeOverlappingNotes", messages |-> messages,
                     result |-> outcome.mergedMessages, closed |-> outcome.closed]
ReturnFromGenerator ==
    /\ genRet # NoGenCall
    /\ genRet' = NoGenCall
    /\ lastGen' = summaryOf(genRet)
    /\ UNCHANGED <<mrVars, feVars, midiVars, plVars, eoVars, gsVars, thVars>>

NextMerge ==
    \/ MergeOverlappingNotes
    \/ ReturnFromGenerator

SpecMerge == InitExtractorOnly /\ [][NextMerge]_vars

BlendPatterns ==
    /\ genRet = NoGenCall
    /\ UNCHANGED <<mrVars, feVars, midiVars, plVars, lastGen, eoVars, gsVars, thVars>>
    /\ \E n \in 0..MaxPatterns :
       \E patterns \in [1..n -> BasePatterns], weights \in [1..n -> Weights] :
       \E result \in blendPatterns(patterns, weights) :
          genRet' = [op |-> "blendPatterns", patterns |-> patterns, weights |-> weights,
                     applied |-> normalizedWeights(patterns, weights), result |-> result]

NextBlend ==
    \/ BlendPatterns
    \/ ReturnFromGenerator

SpecBlend == InitExtractorOnly /\ [][NextBlend]_vars

GenerateIntensifiedMoodPattern ==
    /\ genRet = NoGenCall
    /\ UNCHANGED <<mrVars, feVars, midiVars, plVars, lastGen, eoVars, gsVars, thVars>>
    /\ \E mood \in GeneratorMoods, intensity \in 1..MaxIntensity, duration \in Durations,
          stream \in RandomStreams :
          genRet' = [op |-> "generateIntensifiedMoodPattern", mood |-> mood,
                     intensity |-> intensity, duration |-> duration,
                     result |-> generateIntensifiedMoodPattern(mood, intensity, duration,
                                                               stream)]

NextIntensified ==
    \/ GenerateIntensifiedMoodPattern
    \/ ReturnFromGenerator

SpecIntensified == InitExtractorOnly /\ [][NextIntensified]_vars

GenerateHybridPattern ==
    /\ genRet = NoGenCall
    /\ UNCHANGED <<mrVars, feVars, midiVars, plVars, lastGen, eoVars, gsVars, thVars>>
    /\ \E moods \in MoodLists, weights \in WeightLists, duration \in HybridDurations,
          stream \in RandomStreams :
       \E outcome \in generateHybridPatternOutcome(moods, weights, duration, stream) :
          genRet' = [op |-> "generateHybridPattern", moods |-> moods, weights |-> weights,
                     duration |-> duration, result |-> outcome.pattern,
                     algorithm |-> outcome.algorithm, intensity |-> outcome.intensity,
                     basePatterns |-> outcome.basePatterns]
GenerateSameMoodPattern ==
    /\ genRet = NoGenCall
    /\ UNCHANGED <<mrVars, feVars, midiVars, plVars, lastGen, eoVars, gsVars, thVars>>
    /\ \E mood \in HybridMoods, repetitions \in 0..MaxMoods, duration \in HybridDurations,
          stream \in RandomStreams :
       \E outcome \in generateSameMoodPatternOutcome(mood, repetitions, duration, stream) :
          genRet' = [op |-> "generateSameMoodPattern", mood |-> mood,
                     repetitions |-> repetitions,
                     moods |-> sameMoodArguments(mood, repetitions).moods,
                     weights |-> sameMoodArguments(mood, repetitions).weights,
                     duration |-> duration, result |-> outcome.pattern,
                     algorithm |-> outcome.algorithm, intensity |-> outcome.intensity,
                     basePatterns |-> outcome.basePatterns]

NextHybrid ==
    \/ GenerateHybridPattern
    \/ GenerateSameMoodPattern
    \/ ReturnFromGenerator

SpecHybrid == InitExtractorOnly /\ [][NextHybrid]_vars

SetMoodProfile ==
    /\ eoRet = NoOptimizerCall
    /\ UNCHANGED <<mrVars, feVars, midiVars, plVars, genVars, gsVars, thVars>>
    /\ \E primaryMood \in GeneratorMoods, secondaryMood \in GeneratorMoods :
          setMoodProfile(primaryMood, secondaryMood)

BlendProfiles ==
    /\ eoRet = NoOptimizerCall
    /\ UNCHANGED <<mrVars, feVars, midiVars, plVars, genVars, gsVars, thVars>>
    /\ UNCHANGED <<currentProfile, targetProfile>>
    /\ \E primaryMood \in KnownMoods, secondaryMood \in KnownMoods, blend \in BlendWeights :
          eoRet' = [op |-> "blendProfiles", primary |-> moodProfiles(primaryMood),
                    secondary |-> moodProfiles(secondaryMood), blend |-> blend,
                    result |-> blendProfiles(moodProfiles(primaryMood),
                                             moodProfiles(secondaryMood), blend)]

ReturnFromOptimizer ==
    /\ eoRet # NoOptimizerCall
    /\ eoRet' = NoOptimizerCall
    /\ UNCHANGED <<mrVars, feVars, midiVars, plVars, genVars, gsVars, thVars>>
    /\ UNCHANGED <<currentProfile, targetProfile>>

NextOptimizer ==
    \/ SetMoodProfile
    \/ BlendProfiles
    \/ ReturnFromOptimizer

SpecOptimizer == InitExtractorOnly /\ [][NextOptimizer]_vars

SetGrooveProfile ==
    /\ gsRet = NoShaperCall
    /\ UNCHANGED <<mrVars, feVars, midiVars, plVars, genVars, eoVars, thVars>>
    /\ \E mood \in GeneratorMoods, intensity \in Intensities : setGrooveProfile(mood, intensity)

ProcessGroove ==
    /\ gsRet = NoShaperCall
    /\ UNCHANGED <<mrVars, feVars, midiVars, plVars, genVars, eoVars, thVars>>
    /\ UNCHANGED currentGrooveProfile
    /\ \E midiMessages \in ShaperMessages, tempo \in Tempos, timeSignature \in TimeSignatures,
          stream \in RandomStreams :
          gsRet' = [op |-> "processGroove", midiMessages |-> midiMessages, tempo |-> tempo,
                    timeSignature |-> timeSignature,
                    result |-> processGroove(midiMessages, tempo, timeSignature, stream)]

ApplyAccentPattern ==
    /\ gsRet = NoShaperCall
    /\ UNCHANGED <<mrVars, feVars, midiVars, plVars, genVars, eoVars, thVars>>
    /\ UNCHANGED currentGrooveProfile
    /\ \E midiMessages \in ShaperMessages, accentPattern \in Amounts,
          timeSignature \in TimeSignatures :
          gsRet' = [op |-> "applyAccentPattern", midiMessages |-> midiMessages,
                    amount |-> accentPattern,
                    result |-> applyAccentPattern(midiMessages, accentPattern, timeSignature)]

ApplyVelocityVariation ==
    /\ gsRet = NoShaperCall
    /\ UNCHANGED <<mrVars, feVars, midiVars, plVars, genVars, eoVars, thVars>>
    /\ UNCHANGED currentGrooveProfile
    /\ \E midiMessages \in ShaperMessages, variation \in Amounts, stream \in RandomStreams :
          gsRet' = [op |-> "applyVelocityVariation", midiMessages |-> midiMessages,
                    amount |-> variation,
                    result |-> applyVelocityVariation(midiMessages, variation, stream, 1).messages]

AddGhostNotes ==
    /\ gsRet = NoShaperCall
    /\ UNCHANGED <<mrVars, feVars, midiVars, plVars, genVars, eoVars, thVars>>
    /\ UNCHANGED currentGrooveProfile
    /\ \E midiMessages \in ShaperMessages, ghostAmount \in Amounts, tempo \in Tempos,
          stream \in RandomStreams :
          gsRet' = [op |-> "addGhostNotes", midiMessages |-> midiMessages,
                    amount |-> ghostAmount,
                    result |-> addGhostNotes(midiMessages, ghostAmount, tempo, stream, 1)]

ReturnFromShaper ==
    /\ gsRet # NoShaperCall
    /\ gsRet' = NoShaperCall
    /\ UNCHANGED <<mrVars, feVars, midiVars, plVars, genVars, eoVars, thVars>>
    /\ UNCHANGED currentGrooveProfile

NextShaper ==
    \/ SetGrooveProfile
    \/ ProcessGroove
    \/ ApplyAccentPattern
    \/ ApplyVelocityVariation
    \/ AddGhostNotes
    \/ ReturnFromShaper

SpecShaper == InitExtractorOnly /\ [][NextShaper]_vars

-----------------------------------------------------------------------------
(* The editor's timer on the message thread and the host's callbacks on the
   audio thread: PluginEditor.cpp 323-343, PluginProcessor.cpp 67-152.
   Neither file takes a lock, and the processor's members are plain
   std::unique_ptr; each callback is split into the step where it starts
   touching the processor's members and the step where it is done. *)

Access(object, mode) == [object |-> object, mode |-> mode]

\* PluginEditor.cpp 326: audioProcessor.modelRunner && modelRunner->isModelLoaded()
timerAccesses(pc) ==
    IF pc = "idle"
    THEN {}
    ELSE {Access("modelRunner", "read"), Access("modelLoaded", "read")}

\* PluginProcessor.cpp 78-89: make_unique replaces the runner when the model file
\* exists and the extractor always; 140-143 and 208-227: processBlock tests both
\* pointers, and with ML enabled appends to the extractor's history and predicts
audioAccesses(pc) ==
    CASE pc.at = "prepareToPlay" ->
            (IF ModelFile(pc.modelPath).exists
             THEN {Access("modelRunner", "write"), Access("modelLoaded", "write"),
                   Access("session", "write")}
             ELSE {})
            \cup {Access("featureExtractor", "write"), Access("audioHistory", "write")}
      [] pc.at = "processBlock" ->
            (IF pc.mlEnabled
             THEN {Access("modelRunner", "read"), Access("featureExtractor", "read")}
             ELSE {})
            \cup (IF pc.mlEnabled /\ hasRunner /\ hasExtractor
                  THEN {Access("audioHistory", "write"), Access("modelLoaded", "read"),
                        Access("session", "read")}
                  ELSE {})
      [] OTHER -> {}

\* a read of the runner that overlaps its replacement has no defined value
tornBy(timerAt, audioAt) ==
    \E mine \in timerAccesses(timerAt), theirs \in audioAccesses(audioAt) :
        mine.object = theirs.object /\ theirs.mode = "write"

\* PluginEditor.cpp 326-335: the text the timer sets from what it read
modelStatusText(runner, loaded) ==
    IF runner /\ loaded THEN "MODEL: LOADED" ELSE "MODEL: NOT LOADED"

TimerCallbackBegin ==
    /\ timerPc = "idle"
    /\ timerPc' = IF tornBy("modelStatus", audioPc) THEN "modelStatusTorn" ELSE "modelStatus"
    /\ UNCHANGED <<audioPc, modelStatusLabel>>
    /\ UNCHANGED <<mrVars, feVars, midiVars, plVars, genVars, eoVars, gsVars>>

TimerCallbackEnd ==
    /\ timerPc # "idle"
    /\ timerPc' = "idle"
    /\ modelStatusLabel' \in
          IF timerPc = "modelStatusTorn"
          THEN {modelStatusText(runner, loaded) : runner \in BOOLEAN, loaded \in BOOLEAN}
          ELSE {modelStatusText(hasRunner, modelLoaded)}
    /\ UNCHANGED audioPc
    /\ UNCHANGED <<mrVars, feVars, midiVars, plVars, genVars, eoVars, gsVars>>

PrepareToPlayBegin ==
    /\ audioPc.at = "idle"
    /\ blockRet = NoBlock
    /\ \E modelPath \in Paths :
          LET entered == [at |-> "prepareToPlay", modelPath |-> modelPath] IN
          /\ audioPc' = entered
          /\ timerPc' = IF tornBy(timerPc, entered) THEN "modelStatusTorn" ELSE timerPc
    /\ UNCHANGED modelStatusLabel
    /\ UNCHANGED <<mrVars, feVars, midiVars, plVars, genVars, eoVars, gsVars>>

PrepareToPlayEnd ==
    /\ audioPc.at = "prepareToPlay"
    /\ audioPc' = [at |-> "idle"]
    /\ \E sampleRate \in SampleRates : prepareToPlay(sampleRate, audioPc.modelPath)
    /\ UNCHANGED <<timerPc, modelStatusLabel>>
    /\ UNCHANGED <<midiVars, genVars, eoVars, gsVars>>

ProcessBlockBegin ==
    /\ audioPc.at = "idle"
    /\ blockRet = NoBlock
    /\ hasExtractor
    /\ \E mlEnabled \in BOOLEAN :
          audioPc' = [at |-> "processBlock", mlEnabled |-> mlEnabled]
    /\ UNCHANGED <<timerPc, modelStatusLabel>>
    /\ UNCHANGED <<mrVars, feVars, midiVars, plVars, genVars, eoVars, gsVars>>

ProcessBlockEnd ==
    /\ audioPc.at = "processBlock"
    /\ audioPc' = [at |-> "idle"]
    /\ \E buffer \in PipelineBuffers, sensitivity \in Sensitivities,
          features \in PipelineFeatures, run \in PipelineRuns :
          /\ Len(arrived) + getNumChannels(buffer) * getNumSamples(buffer) <= MaxArrived
          /\ processBlock(buffer, audioPc.mlEnabled, sensitivity, features, run)
    /\ UNCHANGED <<timerPc, modelStatusLabel>>
    /\ UNCHANGED <<midiVars, genVars, eoVars, gsVars>>

NextThreads ==
    \/ TimerCallbackBegin
    \/ TimerCallbackEnd
    \/ PrepareToPlayBegin
    \/ PrepareToPlayEnd
    \/ ProcessBlockBegin
    \/ ProcessBlockEnd
    \/ ReturnFromCallback

SpecThreads == InitProcessor /\ [][NextThreads]_vars

----------------------------------------------------------------------------
(* What the claims speak of, stated from the claims' own words *)

TenMoods ==
    {"chill", "energetic", "suspenseful", "uplifting", "ominous",
     "romantic", "gritty", "dreamy", "frantic", "focused"}

LabelOrder ==
    <<"chill", "energetic", "suspenseful", "uplifting", "ominous",
      "romantic", "gritty", "dreamy", "frantic", "focused">>

\* finite and inside tempo [60,200], swing [0,1], density [0,10], range [0,127], energy [0,1]
ValidFeatures(f) ==
    \A i \in 1..5 : f[i].k = "fin" /\ RangeLo[i] <= f[i].v /\ f[i].v <= RangeHi[i]

MaxScore(outData) ==
    CHOOSE m \in {outData[i] : i \in 1..Len(outData)} : \A i \in 1..Len(outData) : outData[i] <= m

LowestMaxIndex(outData) ==
    CHOOSE i \in 1..Len(outData) :
        /\ outData[i] = MaxScore(outData)
        /\ \A j \in 1..(i - 1) : outData[j] # MaxScore(outData)

ConfidenceFloor == Fx(0, 10)

\* predict ran the session and the session delivered its ten scores
Scored == ret.op = "predict" /\ ret.ran /\ ~ret.run.threw

ShapeMismatchFiles == {"twoInputs", "twoOutputs", "badInput", "badOutput"}

LastN(s, n) == IF Len(s) <= n THEN s ELSE SubSeq(s, Len(s) - n + 1, Len(s))

Ingested == feRet.op = "extractFeaturesFromAudio"

\* the positions of a file's drum note-on events
DrumOnsets(midi) == {i \in 1..Len(midi.events) : midi.events[i].kind = "drumNoteOn"}

\* the time of the latest drum note-on, zero when there is none
TotalDuration(midi) ==
    IF DrumOnsets(midi) = {} THEN 0
    ELSE CHOOSE t \in {midi.events[i].seconds : i \in DrumOnsets(midi)} :
             \A i \in DrumOnsets(midi) : midi.events[i].seconds <= t

FallbackVector == <<Fin(12000), Fin(0), Fin(0), Fin(0), Fin(0)>>

\* a processBlock call has just returned
Called == blockRet.op = "processBlock"

\* that call went through the named stage
Ran(stage) == Called /\ \E i \in 1..Len(blockRet.stages) : blockRet.stages[i] = stage

IsNoteOnEvent(m) == m.kind = "on" /\ m.velocity > 0
IsNoteOffEvent(m) == m.kind = "off" \/ (m.kind = "on" /\ m.velocity = 0)
SameKey(a, b) == a.note = b.note /\ a.channel = b.channel

\* an intensified pattern has just been returned, and the call before it returned one
\* for the same mood and duration
Intensified == genRet.op = "generateIntensifiedMoodPattern"
IntensifiedAfterSame ==
    /\ Intensified
    /\ lastGen.op = "generateIntensifiedMoodPattern"
    /\ lastGen.mood = genRet.mood
    /\ lastGen.duration = genRet.duration

NoteOnPositions(messages) == {i \in 1..Len(messages) : IsNoteOnEvent(messages[i])}
VelocitySum(messages) == SumOf([i \in 1..Len(messages) |->
                                   IF IsNoteOnEvent(messages[i]) THEN messages[i].velocity ELSE 0])

MoodBaseVelocity(mood) ==
    CASE mood \in {"chill", "dreamy"} -> 50
      [] mood \in {"energetic", "frantic"} -> 90
      [] mood \in {"suspenseful", "ominous"} -> 60
      [] mood = "uplifting" -> 80
      [] mood = "romantic" -> 65
      [] mood = "gritty" -> 85
      [] OTHER -> 70

Limited(v) == IF v < 1 THEN 1 ELSE IF v > 127 THEN 127 ELSE v

\* base velocity times (1 + 0.3 (k - 1)), truncated, limited to 1..127
CentreVelocity(mood, k) == Limited((MoodBaseVelocity(mood) * (100 + 30 * (k - 1))) \div 100)

\* the random variation for intensity k: from -int(10 c) to int(20 c) - 1 - int(10 c),
\* c = 1 + 0.25 (k - 1); none for k = 1
VariationBelow(k) == IF k = 1 THEN 0 ELSE (10 * (100 + 25 * (k - 1))) \div 100
VariationAbove(k) ==
    IF k = 1 THEN 0
    ELSE (20 * (100 + 25 * (k - 1))) \div 100 - 1 - (10 * (100 + 25 * (k - 1))) \div 100

\* a blend of base patterns whose weights have a positive total has just returned
Blended == genRet.op = "blendPatterns" /\ genRet.result.patternType = "blended"

\* blendPatterns has just returned for at least one base pattern
BlendReturned == genRet.op = "blendPatterns" /\ genRet.patterns # <<>>

\* the raw weights of the call can be normalized: none is negative and the total is
\* positive
Normalizable(weights) ==
    /\ \A i \in 1..Len(weights) : weights[i] >= 0
    /\ SumOf(weights) > 0

\* a merge pass has just returned
Merged == genRet.op = "mergeOverlappingNotes"

\* a hybrid call has just returned a pattern whose confidence the generator computed
\* from a list of moods with positive total weight
HybridScored ==
    /\ genRet.op = "generateHybridPattern"
    /\ genRet.moods # <<>>
    /\ Len(genRet.moods) = Len(genRet.weights)
    /\ SumOf(genRet.weights) > 0

DistinctMoods(moods) == Cardinality({moods[i] : i \in 1..Len(moods)})

\* the confidence each per-mood generator stamps on its pattern, in hundredths
BaseConfidence(mood) ==
    CASE mood = "chill" -> 80
      [] mood = "energetic" -> 90
      [] OTHER -> 50

RECURSIVE WeightedConfidence(_, _)
WeightedConfidence(moods, weights) ==
    IF moods = <<>> THEN 0
    ELSE BaseConfidence(Head(moods)) * Head(weights)
         + WeightedConfidence(Tail(moods), Tail(weights))

\* two mood lists with their weights have the same weighted average of base confidences
SameAverage(moods1, weights1, moods2, weights2) ==
    WeightedConfidence(moods1, weights1) * SumOf(weights2)
        = WeightedConfidence(moods2, weights2) * SumOf(weights1)

\* the constant profile of each mood, in ten-thousandths, dimension by dimension in the
\* order energy, tension, complexity, danceability, warmth, brightness
ConstantProfile(mood) ==
    LET row == CASE mood = "chill" -> <<2000, 1000, 3000, 4000, 8000, 6000>>
                 [] mood = "energetic" -> <<9000, 6000, 7000, 9000, 4000, 9000>>
                 [] mood = "suspenseful" -> <<6000, 9000, 8000, 3000, 2000, 4000>>
                 [] mood = "uplifting" -> <<8000, 2000, 5000, 8000, 7000, 9000>>
                 [] mood = "ominous" -> <<4000, 8000, 6000, 2000, 1000, 2000>>
                 [] mood = "romantic" -> <<3000, 3000, 7000, 5000, 9000, 7000>>
                 [] mood = "gritty" -> <<7000, 7000, 6000, 6000, 3000, 5000>>
                 [] mood = "dreamy" -> <<2000, 1000, 8000, 3000, 8000, 8000>>
                 [] mood = "frantic" -> <<9500, 9000, 9000, 7000, 2000, 8000>>
                 [] mood = "focused" -> <<6000, 4000, 4000, 6000, 5000, 6000>>
    IN  [energy |-> row[1], tension |-> row[2], complexity |-> row[3],
         danceability |-> row[4], warmth |-> row[5], brightness |-> row[6]]

\* all six dimensions of the shaper's current profile are 0
AllZero ==
    /\ currentGrooveProfile.humanization = 0
    /\ currentGrooveProfile.swingAmount = 0
    /\ currentGrooveProfile.accentPattern = 0
    /\ currentGrooveProfile.microTiming = 0
    /\ currentGrooveProfile.velocityVariation = 0
    /\ currentGrooveProfile.ghostNotes = 0

\* the note event invariant read in list order: between two note-ons of one
\* (pitch, channel) lies a note-off of that pair
SeparatedInList(messages) ==
    \A i \in 1..Len(messages), j \in 1..Len(messages) :
        (i < j /\ IsNoteOnEvent(messages[i]) /\ IsNoteOnEvent(messages[j])
               /\ SameKey(messages[i], messages[j]))
            => \E k \in (i + 1)..(j - 1) :
                   IsNoteOffEvent(messages[k]) /\ SameKey(messages[k], messages[i])

\* the same read in time stamp order: a note-off of the pair is stamped no earlier than
\* the earlier note-on and no later than the later one
SeparatedInTime(messages) ==
    \A i \in 1..Len(messages), j \in 1..Len(messages) :
        (i # j /\ IsNoteOnEvent(messages[i]) /\ IsNoteOnEvent(messages[j])
               /\ SameKey(messages[i], messages[j])
               /\ messages[i].timeStamp <= messages[j].timeStamp)
            => \E k \in 1..Len(messages) :
                   /\ IsNoteOffEvent(messages[k]) /\ SameKey(messages[k], messages[i])
                   /\ messages[i].timeStamp <= messages[k].timeStamp
                   /\ messages[k].timeStamp <= messages[j].timeStamp

\* generateHybridPattern has just returned, called directly or by generateSameMoodPattern
HybridReturned == genRet.op = "generateHybridPattern" \/ genRet.op = "generateSameMoodPattern"

\* every mood of the list is the same mood
AllIdentical(moods) == \A i \in 1..Len(moods), j \in 1..Len(moods) : moods[i] = moods[j]

----------------------------------------------------------------------------
(* Claims *)

\* C1: when the most recent loadModel call failed, isModelLoaded() is false afterwards,
\* also when an earlier load on the same runner had succeeded.
C1_FailedLoadLeavesUnloaded ==
    (ret.op = "loadModel" /\ ret.result = "false") => ~modelLoaded

\* C2 as claimed: predict on a vector with a non-finite or out-of-range component fails
\* with invalid_input and does not run the inference session.
C2_InvalidInputIsInvalidInput ==
    (ret.op = "predict" /\ ~ValidFeatures(ret.features))
        => (ret.result = "invalid_input" /\ ~ret.ran)

\* C2 amended: predict on such a vector never runs the inference session; it fails with
\* invalid_input when the model is loaded and with model_not_loaded when it is not.
C2_InvalidInputNeverRuns ==
    (ret.op = "predict" /\ ~ValidFeatures(ret.features))
        => /\ ~ret.ran
           /\ ret.result = (IF modelLoaded THEN "invalid_input" ELSE "model_not_loaded")

C2_Witness ==
    /\ ret.op = "predict"
    /\ modelLoaded
    /\ ret.features[1] = NaN
    /\ ret.result = "invalid_input"

\* C3 as claimed: for every valid feature vector predict returns one of the ten mood
\* labels, whatever the ten output scores are.
C3_ValidYieldsLabel ==
    (Scored /\ modelLoaded /\ ValidFeatures(ret.features)) => ret.result \in TenMoods

\* C3 amended: for every valid feature vector given to a loaded runner whose inference
\* run delivers the ten scores, predict returns one of the ten mood labels when the
\* highest score is at least 0.1, and low_confidence otherwise.
C3_ValidYieldsLabelOrLowConfidence ==
    (Scored /\ modelLoaded /\ ValidFeatures(ret.features))
        => IF MaxScore(ret.run.outData) >= ConfidenceFloor
           THEN ret.result \in TenMoods
           ELSE ret.result = "low_confidence"

C3_Witness ==
    /\ Scored
    /\ ValidFeatures(ret.features)
    /\ ret.features # Nominal
    /\ ret.result \in TenMoods

\* C4: predict on (tempo 140, swing 0.05, density 25, dynamicRange 80, energy 0.85) with a
\* loaded model is not rejected by the input gate: the session is run, so that the
\* model's scores decide the classification (energetic or frantic).
C4_ExampleReachesTheModel ==
    (ret.op = "predict" /\ modelLoaded /\ ret.features = ExampleFeatures)
        => (ret.ran /\ ret.result # "invalid_input")

\* C5: neither predict nor predictProbabilities runs the model on a feature vector that
\* has a non-finite component or a component outside its validity range.
C5_GateBeforeEveryEntryPoint ==
    (ret.op \in {"predict", "predictProbabilities"} /\ ~ValidFeatures(ret.features))
        => ~ret.ran

\* C6: the not-loaded, invalid-input and low-confidence outcomes of predict each name
\* exactly their own case, a mood label is returned in none of these cases, and a load
\* that meets a tensor count or shape mismatch reports failure.
C6_OutcomesDistinct ==
    /\ ret.op = "predict" =>
          /\ (ret.result = "model_not_loaded") <=> ~modelLoaded
          /\ (ret.result = "invalid_input") <=> (modelLoaded /\ ~ValidFeatures(ret.features))
          /\ (ret.result = "low_confidence")
                <=> (Scored /\ MaxScore(ret.run.outData) < ConfidenceFloor)
          /\ (ret.result \in TenMoods)
                => (/\ modelLoaded
                    /\ ValidFeatures(ret.features)
                    /\ Scored
                    /\ MaxScore(ret.run.outData) >= ConfidenceFloor)
    /\ (ret.op = "loadModel" /\ ret.path \in ShapeMismatchFiles) => ret.result = "false"

C6_Witness ==
    /\ ret.op = "predict"
    /\ ret.result = "low_confidence"
    /\ ret.run.outData[1] = Fx(0, 9)

\* C7: for a loaded model and valid input whose run delivers the scores, with i the lowest
\* index of the maximum score: the result is low_confidence if that score is below 0.1,
\* and otherwise the i-th label of the fixed order.
C7_ArgMaxLowestIndex ==
    (Scored /\ modelLoaded /\ ValidFeatures(ret.features))
        => LET i == LowestMaxIndex(ret.run.outData) IN
           ret.result = (IF ret.run.outData[i] < ConfidenceFloor
                         THEN "low_confidence"
                         ELSE LabelOrder[i])

\* a tie between two indices, neither of them the first, won by the lower one
C7_Witness ==
    /\ Scored
    /\ \E i \in 2..9 : \E j \in (i + 1)..10 :
          /\ ret.run.outData[i] = MaxScore(ret.run.outData)
          /\ ret.run.outData[j] = MaxScore(ret.run.outData)
          /\ ret.run.outData[1] < MaxScore(ret.run.outData)
          /\ ret.result = LabelOrder[i]

\* C8: after every extractFeaturesFromAudio call each of the three histories holds at
\* most MAX_HISTORY_SIZE entries, and they are exactly the most recent entries, in
\* arrival order.
C8_HistoryIsMostRecent ==
    Ingested =>
        /\ Len(audioHistory) <= MAX_HISTORY_SIZE
        /\ Len(velocityHistory) <= MAX_HISTORY_SIZE
        /\ Len(pitchHistory) <= MAX_HISTORY_SIZE
        /\ audioHistory = LastN(arrived, MAX_HISTORY_SIZE)
        /\ velocityHistory = [i \in 1..Len(audioHistory) |-> fabs(audioHistory[i])]
        /\ pitchHistory = [i \in 1..Len(audioHistory) |-> (audioHistory[i] + 100) * 64]

\* an eviction that dropped entries differing from the ones kept
C8_Witness ==
    /\ Ingested
    /\ Len(arrived) > MAX_HISTORY_SIZE
    /\ Len(audioHistory) = MAX_HISTORY_SIZE
    /\ arrived[1] # arrived[Len(arrived)]
    /\ SubSeq(arrived, 1, MAX_HISTORY_SIZE) # audioHistory

\* C9: extractFeaturesFromAudio returns a feature vector exactly when, after the call,
\* the history holds at least sampleRate samples.
C9_ResultOnlyWithFullWindow ==
    Ingested => (feRet.hasValue <=> Len(audioHistory) >= feRet.sampleRate)

C9_Witness ==
    /\ Ingested
    /\ feRet.hasValue
    /\ Len(audioHistory) = feRet.sampleRate
    /\ feRet.sampleRate > 1

\* C10: the history never holds more entries than the capacity reserved at construction,
\* also between appending the incoming block and evicting, so it is never reallocated.
C10_NeverExceedsReserved ==
    /\ Ingested => feRet.peakSize <= MAX_HISTORY_SIZE
    /\ capacity = MAX_HISTORY_SIZE

\* C11: extractFeaturesFromMidi returns exactly the fallback (120, 0, 0, 0, 0) when the
\* file cannot be parsed, when fewer than two drum note-ons were counted, or when the
\* latest counted onset is at time zero; in none of these cases does it divide by the
\* onset count or by the duration.
C11_FallbackWithoutDivision ==
    (/\ midiRet.op = "extractFeaturesFromMidi"
     /\ \/ ~midiRet.midi.read
        \/ Cardinality(DrumOnsets(midiRet.midi)) < 2
        \/ TotalDuration(midiRet.midi) = 0)
        => /\ midiRet.features = FallbackVector
           /\ \A d \in midiRet.divisions : d.by \notin {"size", "endTime"}

\* C11 case: a readable file with two counted onsets, both at time zero, gave the fallback
C11_Witness ==
    /\ midiRet.op = "extractFeaturesFromMidi"
    /\ midiRet.midi.read
    /\ Cardinality(DrumOnsets(midiRet.midi)) = 2
    /\ TotalDuration(midiRet.midi) = 0
    /\ midiRet.features = FallbackVector

\* C12: a callback in which the extractor yields no result, or predict answers
\* low_confidence, processes its block for the same mood as the callback before it: the
\* mood-based processing changes only on a callback that produced a valid label.
C12_NoResultKeepsMood ==
    (/\ Called
     /\ lastBlock.op = "processBlock"
     /\ \/ (Ran("extractFeaturesFromAudio") /\ ~blockRet.has_value)
        \/ blockRet.predictedMood = "low_confidence")
        => blockRet.branch = lastBlock.branch

\* C13: while no model is loaded, a processBlock call runs the filter chain and the
\* mid/side stage, applies no mood gain, and returns.
C13_UnloadedRunsDspOnly ==
    (Called /\ ~(hasRunner /\ modelLoaded))
        => /\ Ran("processorChain")
           /\ Ran("midSide")
           /\ blockRet.branch = "none"
           /\ blockRet.factor = 100

\* C13 case: the runner exists but its load failed, the window is full, and predict was
\* asked and answered model_not_loaded
C13_Witness ==
    /\ Called
    /\ hasRunner
    /\ ~modelLoaded
    /\ Ran("predict")
    /\ blockRet.predictedMood = "model_not_loaded"

\* C14: predict is not run in every callback: of two consecutive processBlock calls at
\* most one invokes it.
C14_PredictNotEveryCallback ==
    ~(/\ Called
      /\ Ran("predict")
      /\ lastBlock.op = "processBlock"
      /\ \E i \in 1..Len(lastBlock.stages) : lastBlock.stages[i] = "predict")

\* C15: for every input, the output of the merge pass, read in order, never holds two
\* note-ons for the same (pitch, channel) without a note-off for that pair between them.
C15_NoteOnsSeparatedPerKey ==
    Merged =>
        \A i \in 1..Len(genRet.result), j \in 1..Len(genRet.result) :
            (/\ i < j
             /\ IsNoteOnEvent(genRet.result[i])
             /\ IsNoteOnEvent(genRet.result[j])
             /\ SameKey(genRet.result[i], genRet.result[j]))
                => \E k \in (i + 1)..(j - 1) :
                       /\ IsNoteOffEvent(genRet.result[k])
                       /\ SameKey(genRet.result[k], genRet.result[i])

\* C16: the merge pass keeps open note-ons per (pitch, channel): a note-off closes only
\* a note-on of its own pitch and channel, and closes or discards no note-on of another
\* channel.
C16_NoteOffClosesOwnKeyOnly ==
    Merged =>
        \A c \in 1..Len(genRet.closed) :
            LET closure == genRet.closed[c] IN
            /\ SameKey(genRet.messages[closure.on], genRet.messages[closure.off])
            /\ \A e \in closure.erased :
                   genRet.messages[e].channel = genRet.messages[closure.off].channel

\* C17: the message list of a hybrid pattern (weight, sort, merge pass) is one
\* time-ordered stream: of any two consecutive messages the first is not later than
\* the second.
C17_BlendIsTimeOrdered ==
    Blended =>
        \A i \in 1..(Len(genRet.result.messages) - 1) :
            genRet.result.messages[i].timeStamp <= genRet.result.messages[i + 1].timeStamp

\* C18: for every mood and duration the number of note-ons of the intensified pattern
\* does not fall when the intensity rises, and for chill over 4 s intensity 3 gives
\* strictly more note-ons than intensity 1.
C18_DensityNonDecreasing ==
    (IntensifiedAfterSame /\ lastGen.intensity <= genRet.intensity)
        => /\ Len(lastGen.velocities) <= Cardinality(NoteOnPositions(genRet.result.messages))
           /\ (/\ genRet.mood = "chill"
               /\ genRet.duration = 400
               /\ lastGen.intensity = 1
               /\ genRet.intensity = 3)
                  => Len(lastGen.velocities)
                         < Cardinality(NoteOnPositions(genRet.result.messages))

\* C18 case: chill over 4 s at intensity 3, straight after the same at intensity 1
C18_Witness ==
    /\ IntensifiedAfterSame
    /\ genRet.mood = "chill"
    /\ genRet.duration = 400
    /\ lastGen.intensity = 1
    /\ genRet.intensity = 3
    /\ Len(lastGen.velocities) = 16
    /\ Cardinality(NoteOnPositions(genRet.result.messages)) = 22

C20_PenaltyByDistinctMoods ==
    HybridScored =>
        \A moods \in MoodLists, weights \in WeightLists :
            (/\ Len(moods) = Len(weights)
             /\ SumOf(weights) > 0
             /\ DistinctMoods(moods) = DistinctMoods(genRet.moods)
             /\ SameAverage(moods, weights, genRet.moods, genRet.weights))
                => calculateHybridConfidence(moods, weights, <<0>>)
                       = genRet.result.confidence

\* C21: for raw weights with a positive total the weights applied to the base patterns
\* are each non-negative and sum to 1, and raw weights that cannot be normalized to
\* such weights are applied to no pattern.
C21_AppliedWeightsNormalized ==
    BlendReturned =>
        /\ SumOf(genRet.weights) > 0 =>
               /\ Len(genRet.applied) = Len(genRet.patterns)
               /\ \A i \in 1..Len(genRet.applied) :
                      genRet.applied[i].by * genRet.applied[i].divisor >= 0
               /\ \A i \in 1..Len(genRet.applied) :
                      SumOf([k \in 1..Len(genRet.applied) |-> genRet.applied[k].by])
                          = genRet.applied[i].divisor
        /\ ~Normalizable(genRet.weights) => genRet.applied = <<>>

\* C22: blending a mood profile with itself returns that profile in all six dimensions
\* for every blend weight in 0..1, and setMoodProfile(m, m) makes the current profile
\* the constant profile of m.
C22_BlendSelfIdentity ==
    /\ (eoRet.op = "blendProfiles" /\ eoRet.primary = eoRet.secondary)
           => eoRet.result = eoRet.primary
    /\ (/\ eoRet.op = "setMoodProfile"
        /\ eoRet.primaryMood = eoRet.secondaryMood
        /\ eoRet.primaryMood \in TenMoods)
           => currentProfile = ConstantProfile(eoRet.primaryMood)

\* C22 case: setMoodProfile("frantic", "frantic") has just returned with the energy of
\* frantic
C22_Witness ==
    /\ eoRet.op = "setMoodProfile"
    /\ eoRet.primaryMood = "frantic"
    /\ eoRet.secondaryMood = "frantic"
    /\ currentProfile.energy = 9500

\* C24: with all six dimensions of the groove profile at 0, as setGrooveProfile(mood, 0)
\* leaves them for a known mood, processGroove returns the message list unchanged:
\* same messages, order, time stamps and velocities, no ghost notes.
C24_ZeroProfileIsNoOp ==
    /\ (gsRet.op = "processGroove" /\ AllZero) => gsRet.result = gsRet.midiMessages
    /\ (gsRet.op = "setGrooveProfile" /\ gsRet.mood \in TenMoods /\ gsRet.intensity = 0)
           => AllZero

\* C24 case: processGroove has returned for a list with notes under the all-zero profile
C24_Witness ==
    /\ gsRet.op = "processGroove"
    /\ AllZero
    /\ Len(gsRet.midiMessages) >= 4

\* C27: when the list handed to addGhostNotes keeps the note event invariant, in list
\* order and in time stamp order, so does the list it leaves: no second note-on of a
\* (pitch, channel) before the note-off of the previous one.
C27_GhostNotesKeepInvariant ==
    (/\ gsRet.op = "addGhostNotes"
     /\ SeparatedInList(gsRet.midiMessages)
     /\ SeparatedInTime(gsRet.midiMessages))
        => /\ SeparatedInList(gsRet.result)
           /\ SeparatedInTime(gsRet.result)

\* C28: a pass that rewrites only velocities (accent scaling, velocity variation) leaves
\* every note-on's time stamp, pitch and channel as they were in the list it was given.
C28_VelocityPassKeepsTimeStamps ==
    (gsRet.op = "applyAccentPattern" \/ gsRet.op = "applyVelocityVariation")
        => /\ Len(gsRet.result) = Len(gsRet.midiMessages)
           /\ \A k \in 1..Len(gsRet.midiMessages) :
                  IsNoteOnEvent(gsRet.midiMessages[k])
                      => /\ gsRet.result[k].timeStamp = gsRet.midiMessages[k].timeStamp
                         /\ gsRet.result[k].note = gsRet.midiMessages[k].note
                         /\ gsRet.result[k].channel = gsRet.midiMessages[k].channel

\* C26: generateHybridPattern uses the intensification algorithm, with the length of
\* the mood list as repetition count, exactly when every mood of the list is identical;
\* for a list with two or more distinct moods it generates one base pattern per listed
\* mood and blends them.
C26_IntensifiedIffAllIdentical ==
    HybridReturned =>
        /\ (genRet.algorithm = "intensified" /\ genRet.intensity = Len(genRet.moods))
               <=> AllIdentical(genRet.moods)
        /\ DistinctMoods(genRet.moods) >= 2
               => genRet.algorithm = "blend" /\ genRet.basePatterns = Len(genRet.moods)

\* C26 amended: for a non-empty mood list with as many weights, intensification with
\* the list's length as repetition count is used exactly when every mood is identical;
\* a list with two or more distinct moods is blended from one base pattern per listed
\* mood when the total weight is positive and gets the default pattern otherwise; an
\* empty list or a weight list of another length gets the default pattern.
C26_IntensifiedIffAllIdenticalAccepted ==
    HybridReturned =>
        IF genRet.moods = <<>> \/ Len(genRet.moods) # Len(genRet.weights)
        THEN genRet.algorithm = "default"
        ELSE /\ (genRet.algorithm = "intensified" /\ genRet.intensity = Len(genRet.moods))
                    <=> AllIdentical(genRet.moods)
             /\ genRet.algorithm = "intensified" => genRet.intensity = Len(genRet.moods)
             /\ (DistinctMoods(genRet.moods) >= 2 /\ SumOf(genRet.weights) > 0)
                    => genRet.algorithm = "blend" /\ genRet.basePatterns = Len(genRet.moods)
             /\ (DistinctMoods(genRet.moods) >= 2 /\ SumOf(genRet.weights) <= 0)
                    => genRet.algorithm = "default"

\* C26 case: a list of three times the same mood has gone through intensification
C26_Witness ==
    /\ genRet.op = "generateHybridPattern"
    /\ genRet.moods = <<"energetic", "energetic", "energetic">>
    /\ genRet.algorithm = "intensified"
    /\ genRet.intensity = 3

\* C29: every note-on message (status 0x9n) in the output of hybrid blending carries a
\* velocity in 1..127, for every weight list with a positive total.
C29_BlendVelocityInRange ==
    Blended =>
        \A i \in 1..Len(genRet.result.messages) :
            genRet.result.messages[i].kind = "on"
                => /\ genRet.result.messages[i].velocity >= 1
                   /\ genRet.result.messages[i].velocity <= 127

\* C30: once the history holds a full window for a sample rate, so that ingest returns
\* a feature vector for it, every later ingest call with that sample rate returns one
\* too, until reset(); reset() empties all three histories, and a feature vector is
\* returned only when a full window has arrived since construction or the last reset.
C30_ResultsPersistUntilReset ==
    [][/\ \A r \in SampleRates :
             (Len(audioHistory) >= r /\ feRet'.op # "reset")
                 => /\ Len(audioHistory') >= r
                    /\ (feRet'.op = "extractFeaturesFromAudio" /\ feRet'.sampleRate = r)
                           => feRet'.hasValue
       /\ feRet'.op = "reset"
             => audioHistory' = <<>> /\ velocityHistory' = <<>> /\ pitchHistory' = <<>>
       /\ (feRet'.op = "extractFeaturesFromAudio" /\ feRet'.hasValue)
             => Len(arrived') >= feRet'.sampleRate]_vars

\* C30 case: an ingest returns a feature vector for a rate of a full history after older
\* samples have been evicted
C30_Witness ==
    /\ Ingested
    /\ feRet.hasValue
    /\ feRet.sampleRate = MAX_HISTORY_SIZE
    /\ Len(arrived) > MAX_HISTORY_SIZE

\* C25: while the editor's timer callback runs concurrently with the audio
\* callbacks, the runner pointer, the runner's loaded state and session, the
\* extractor pointer and the extractor's history are never touched by one
\* thread while the other writes them, and the two threads touch no common
\* object besides the mood decision.
C25_NoUnsynchronizedSharing ==
    \A mine \in timerAccesses(timerPc), theirs \in audioAccesses(audioPc) :
        mine.object = theirs.object =>
            /\ mine.mode = "read" /\ theirs.mode = "read"
            /\ mine.object = "currentMood"

====
